---- MODULE Spec2Model ----
(***************************************************************************)
(* Moderation decision engine of cgoss/Moderation-ai:                      *)
(*   src/src/core/standards.py  StandardsEngine, Standard, Metric          *)
(*   src/src/core/metrics.py    MetricsValidator                           *)
(*   src/src/core/base.py       Comment, Violation, ModerationResult       *)
(*                                                                         *)
(* Numbers.  The code computes with floats; the model computes the same    *)
(* quantities exactly:                                                     *)
(*   - a metric threshold, a violation confidence and the engine threshold *)
(*     are integers in hundredths (0.7 is 70);                             *)
(*   - a standard weight is an integer in tenths (1.5 is 15);              *)
(*   - a score (a metric's badness score, the overall score) is a fraction *)
(*     [num, den] with den > 0, of value num/den;                          *)
(*   - the overall confidence is an integer in thousandths (1.0 is 1000).  *)
(*                                                                         *)
(* Text.  A comment text is a sequence of tokens separated by single       *)
(* blanks; the token Blank stands for a run of whitespace and only occurs  *)
(* as the single token of a whitespace-only text.  <<>> is the empty text. *)
(* A regular expression is a record describing its shape (see findall).    *)
(***************************************************************************)
EXTENDS Integers, Sequences, FiniteSets, TLC

VARIABLES
    standards,           \* StandardsEngine.standards: ordered dict, as a sequence of Standard
    metrics,             \* StandardsEngine.metrics: dict name -> Metric, as a function
    threshold,           \* StandardsEngine.threshold (hundredths)
    auto_moderate,       \* StandardsEngine.auto_moderate
    _cache,              \* StandardsEngine._cache
    validator_metrics,   \* MetricsValidator.metrics: dict name -> Metric
    _custom_validators,  \* MetricsValidator._custom_validators: dict name -> evaluator
    ret,                 \* the last operation, its arguments and what it returned
    now,                 \* the wall clock read by datetime.utcnow()
    ctor,                \* history: the arguments the engine was constructed with
    disabled,            \* history: per standard name, what happened since disable_standard
    memo,                \* history: one earlier moderate() call and the engine it ran on
    heap,                \* the Standard objects in memory, by reference
    engines,             \* several StandardsEngine instances: dicts of references
    executed,            \* the calls BasePlatform.moderate_comment has received
    retry,               \* a call of a retry_on_error wrapper: its locals and its sleeps
    limiter,             \* a RateLimiter: its buckets, _last_update and _lock
    threads,             \* per thread, its position in a RateLimiter method
    clock,               \* the time read by the RateLimiter, in ticks
    granted,             \* history: tokens granted by acquire while no time elapsed
    wrapper              \* calls of a rate_limit wrapper: their limiters and positions

engineVars == <<standards, metrics, threshold, auto_moderate, _cache>>

validatorVars == <<validator_metrics, _custom_validators>>

historyVars == <<ctor, disabled, memo>>

heapVars == <<heap, engines>>

limiterVars == <<limiter, threads, clock, granted>>

utilityVars == <<heapVars, executed, retry, limiterVars, wrapper>>

vars == <<engineVars, validatorVars, ret, now, historyVars, utilityVars>>

\* no second engine, no platform, no retry wrapper and no rate limiter exists
NoHeap == heap = <<>> /\ engines = <<>>

NoPlatform == executed = <<>>

NoRetry == retry = <<>>

NoLimiter == limiter = <<>> /\ threads = <<>> /\ clock = 0 /\ granted = 0

NoWrapper == wrapper = <<>>

NoUtilities == NoHeap /\ NoPlatform /\ NoRetry /\ NoLimiter /\ NoWrapper

-----------------------------------------------------------------------------
(* Bounds of the model                                                     *)

MaxWords == 2        \* longest generated comment text, in tokens

-----------------------------------------------------------------------------
(* Generic helpers                                                         *)

None == "None"

Range(s) == {s[i] : i \in 1..Len(s)}

MaxOf(S) == CHOOSE x \in S : \A y \in S : y <= x

MinOf(S) == CHOOSE x \in S : \A y \in S : x <= y

SeqsUpTo(S, n) == UNION {[1..k -> S] : k \in 0..n}

\* the fraction 0/1, the float 0.0
Zero == [num |-> 0, den |-> 1]

\* the fraction f is less than t hundredths
FracLess(f, t) == f.num * 100 < t * f.den

FracEq(f, g) == f.num * g.den = g.num * f.den

-----------------------------------------------------------------------------
(* Text and regular expressions                                            *)

Blank == " "

\* str.lower() on one token
Lower(w) ==
    CASE w = "You" -> "you"
      [] w = "This" -> "this"
      [] w = "SHIT" -> "shit"
      [] w = "FUCK" -> "fuck"
      [] w = "Kill" -> "kill"
      [] OTHER -> w

\* comment.text.lower()
lower(text) == [i \in 1..Len(text) |-> Lower(text[i])]

\* text.split(): the whitespace-separated words
split(text) == SelectSeq(text, LAMBDA w : w # Blank)

\* Shapes of check_pattern:
\*   [kind |-> "alt", alts, wb]  (?:a|b|c), between \b ... \b when wb
\*   [kind |-> "dot"]            .+ and ^.+$ : one match per non-empty line
\*   [kind |-> "class", cls]     a token class: "url" https?://\S+,
\*                               "repeat" (.)\1{3,}, "number" \d{3,}|\$[0-9,]+
\*   [kind |-> "bad"]            a malformed expression: re.compile raises
Alt(words) == [kind |-> "alt", alts |-> words, wb |-> FALSE]

AltB(words) == [kind |-> "alt", alts |-> words, wb |-> TRUE]

Dot == [kind |-> "dot"]

Class(c) == [kind |-> "class", cls |-> c]

Bad == [kind |-> "bad"]

\* non-overlapping occurrences of the alternative a inside the lower-case token w
Occurrences(w, a) ==
    CASE w = a -> 1
      [] w = "killkill" /\ a = "kill" -> 2
      [] w = "shit" /\ a = "hit" -> 1
      [] OTHER -> 0

TokenClass(w) ==
    CASE w = "http://x.co" -> "url"
      [] w = "aaaa" -> "repeat"
      [] OTHER -> "word"

\* the text a match inside the token returns
ClassMatch(w) == IF w = "aaaa" THEN "a" ELSE w

RECURSIVE Concat(_)
Concat(ss) == IF ss = <<>> THEN <<>> ELSE Head(ss) \o Concat(Tail(ss))

\* the matches of any alternative of the set inside the token (the alternatives
\* of one pattern never overlap inside a token of the vocabulary)
RECURSIVE AltMatches(_, _)
AltMatches(w, alts) ==
    IF alts = {}
    THEN <<>>
    ELSE LET a == CHOOSE x \in alts : TRUE
         IN  [k \in 1..Occurrences(w, a) |-> a] \o AltMatches(w, alts \ {a})

\* the matches of the pattern inside one token
TokenMatches(p, w) ==
    CASE p.kind = "alt" /\ p.wb -> IF w \in p.alts THEN <<w>> ELSE <<>>
      [] p.kind = "alt" /\ ~p.wb -> AltMatches(w, p.alts)
      [] p.kind = "class" -> IF TokenClass(w) = p.cls THEN <<ClassMatch(w)>> ELSE <<>>
      [] OTHER -> <<>>

\* pattern.findall(text) for a pattern that compiles: the list of matches,
\* left to right; .+ matches a non-empty line as a whole
findall(p, text) ==
    IF p.kind = "dot"
    THEN IF Len(text) > 0 THEN <<text>> ELSE <<>>
    ELSE Concat([i \in 1..Len(text) |-> TokenMatches(p, text[i])])

\* re.compile(pattern, re.IGNORECASE) raises re.error
CompileFails(p) == p.kind = "bad"

-----------------------------------------------------------------------------
(* Data model: src/src/core/standards.py, src/src/core/base.py             *)

LOW == "low"

MEDIUM == "medium"

HIGH == "high"

CRITICAL == "critical"

Severity == {LOW, MEDIUM, HIGH, CRITICAL}

APPROVE == "approve"

FLAG == "flag"

\* HIDE is a reserved word of TLA+
HIDE_ == "hide"

REMOVE == "remove"

ModerationAction == {APPROVE, FLAG, HIDE_, REMOVE}

\* Standard(name, description, metrics, enabled=True, weight=1.0, severity_threshold=0.7)
Standard(name, mets, enabled, weight, severity_threshold) ==
    [name |-> name, metrics |-> mets, enabled |-> enabled, weight |-> weight,
     severity_threshold |-> severity_threshold]

\* Metric(name, description, check_pattern, severity, threshold, enabled=True)
Metric(name, check_pattern, severity, thr, enabled) ==
    [name |-> name, check_pattern |-> check_pattern, severity |-> severity,
     threshold |-> thr, enabled |-> enabled]

Comment(id, text) == [id |-> id, text |-> text]

\* a dict built from a sequence of values keyed by .name
DictOf(ms) == [n \in {m.name : m \in ms} |-> CHOOSE m \in ms : m.name = n]

-----------------------------------------------------------------------------
(* StandardsEngine: src/src/core/standards.py                              *)

DEFAULT_STANDARDS ==
    << Standard("safety", <<"profanity", "threats", "self_harm", "illegal_content">>, TRUE, 15, 60),
       Standard("quality", <<"length", "substance", "relevance", "coherence">>, TRUE, 10, 70),
       Standard("spam", <<"repetition", "links", "keywords", "patterns">>, TRUE, 12, 60),
       Standard("policy", <<"harassment", "hate_speech", "misinformation", "violence">>, TRUE, 15, 50),
       Standard("engagement", <<"tone", "constructiveness", "civility", "helpfulness">>, TRUE, 8, 70) >>

DEFAULT_METRICS ==
    DictOf({
      Metric("profanity", AltB({"shit", "fuck", "damn", "ass", "bitch", "crap", "bastard", "idiot", "stupid"}), MEDIUM, 70, TRUE),
      Metric("threats", Alt({"kill", "destroy", "hurt", "harm", "attack", "assault", "murder", "rape"}), CRITICAL, 50, TRUE),
      Metric("self_harm", Alt({"suicide", "kill myself", "end it", "hurt myself"}), CRITICAL, 50, TRUE),
      Metric("illegal_content", Alt({"drugs", "weapons", "piracy", "illegal", "black market"}), HIGH, 70, TRUE),
      Metric("length", Dot, LOW, 60, TRUE),
      Metric("substance", Alt({"agree", "disagree", "good", "bad", "nice", "cool", "awesome", "great"}), LOW, 80, TRUE),
      Metric("relevance", Dot, MEDIUM, 70, TRUE),
      Metric("coherence", Dot, MEDIUM, 70, TRUE),
      Metric("repetition", Class("repeat"), MEDIUM, 70, TRUE),
      Metric("links", Class("url"), MEDIUM, 80, TRUE),
      Metric("keywords", Alt({"subscribe", "follow", "like", "check this", "visit my"}), MEDIUM, 70, TRUE),
      Metric("patterns", Class("number"), MEDIUM, 70, TRUE),
      Metric("harassment", Alt({"stupid", "idiot", "loser", "pathetic", "shut up", "you're awful"}), HIGH, 60, TRUE),
      Metric("hate_speech", Alt({"hate", "discriminate", "racist", "sexist", "homophobic"}), CRITICAL, 50, TRUE),
      Metric("misinformation", Alt({"fake news", "conspiracy", "false", "not true"}), HIGH, 70, TRUE),
      Metric("violence", Alt({"beat", "punch", "kick", "hit", "violent", "bloody", "kill"}), HIGH, 60, TRUE),
      Metric("tone", Dot, LOW, 70, TRUE),
      Metric("constructiveness", Alt({"improve", "suggest", "recommend", "maybe", "could", "should"}), LOW, 70, TRUE),
      Metric("civility", Dot, MEDIUM, 70, TRUE),
      Metric("helpfulness", Alt({"help", "useful", "thanks", "thank", "appreciate"}), LOW, 70, TRUE) })

\* mutant of _check_metric: a metric without matches is reported as failed
_check_metric_NoMatchFails(comment, metric) ==
    LET text == lower(comment.text) IN
    IF CompileFails(metric.check_pattern)
    THEN [passed |-> TRUE, score |-> Zero, reasoning |-> <<"Error checking", metric.name>>]
    ELSE LET matches == findall(metric.check_pattern, text)
             words == Len(split(text))
             score == [num |-> Len(matches), den |-> IF words > 1 THEN words ELSE 1]
         IN  [passed |-> matches # <<>> /\ FracLess(score, metric.threshold),
              score |-> score,
              reasoning |-> <<"Found", Len(matches), "matches for", metric.name, "pattern">>]

\* mutant of _check_metric: an expression that does not compile fails the metric
_check_metric_FailClosed(comment, metric) ==
    LET text == lower(comment.text) IN
    IF CompileFails(metric.check_pattern)
    THEN [passed |-> FALSE, score |-> [num |-> 1, den |-> 1],
          reasoning |-> <<"Error checking", metric.name>>]
    ELSE LET matches == findall(metric.check_pattern, text)
             words == Len(split(text))
             score == [num |-> Len(matches), den |-> IF words > 1 THEN words ELSE 1]
         IN  IF matches # <<>>
             THEN [passed |-> FracLess(score, metric.threshold),
                   score |-> score,
                   reasoning |-> <<"Found", Len(matches), "matches for", metric.name, "pattern">>]
             ELSE [passed |-> TRUE, score |-> Zero,
                   reasoning |-> <<"No matches found for", metric.name>>]

\* _check_metric: (passed, score, reasoning)
_check_metric(comment, metric) ==
    LET text == lower(comment.text) IN
    IF CompileFails(metric.check_pattern)
    THEN [passed |-> TRUE, score |-> Zero, reasoning |-> <<"Error checking", metric.name>>]
    ELSE LET matches == findall(metric.check_pattern, text)
             words == Len(split(text))
             score == [num |-> Len(matches), den |-> IF words > 1 THEN words ELSE 1]
         IN  IF matches # <<>>
             THEN [passed |-> FracLess(score, metric.threshold),
                   score |-> score,
                   reasoning |-> <<"Found", Len(matches), "matches for", metric.name, "pattern">>]
             ELSE [passed |-> TRUE, score |-> Zero,
                   reasoning |-> <<"No matches found for", metric.name>>]

\* mutant of _determine_severity: the band limits belong to the lower band
_determine_severity_Shifted(confidence, standard) ==
    IF confidence > 90 THEN CRITICAL
    ELSE IF confidence > 70 THEN HIGH
    ELSE IF confidence > 50 THEN MEDIUM
    ELSE LOW

\* _determine_severity
_determine_severity(confidence, standard) ==
    IF confidence >= 90 THEN CRITICAL
    ELSE IF confidence >= 70 THEN HIGH
    ELSE IF confidence >= 50 THEN MEDIUM
    ELSE LOW

\* mutant of _check_standard: a disabled metric is checked like an enabled one
_check_standard_ChecksDisabled(self, comment, standard) ==
    LET violated_metrics ==
            SelectSeq(standard.metrics,
                      LAMBDA m : /\ m \in DOMAIN self.metrics
                                 /\ ~_check_metric(comment, self.metrics[m]).passed)
    IN  IF violated_metrics # <<>>
        THEN LET confidence == MaxOf({self.metrics[m].threshold : m \in Range(violated_metrics)})
             IN  << [standard |-> standard.name,
                     severity |-> _determine_severity(confidence, standard),
                     confidence |-> confidence,
                     violated_metrics |-> violated_metrics,
                     reasoning |-> <<"Comment violates", standard.name,
                                     "standard based on metrics:", violated_metrics>>] >>
        ELSE <<>>

\* _check_standard: the list of violations (empty or one Violation)
_check_standard(self, comment, standard) ==
    LET violated_metrics ==
            SelectSeq(standard.metrics,
                      LAMBDA m : /\ m \in DOMAIN self.metrics
                                 /\ self.metrics[m].enabled
                                 /\ ~_check_metric(comment, self.metrics[m]).passed)
    IN  IF violated_metrics # <<>>
        THEN LET confidence == MaxOf({self.metrics[m].threshold : m \in Range(violated_metrics)})
             IN  << [standard |-> standard.name,
                     severity |-> _determine_severity(confidence, standard),
                     confidence |-> confidence,
                     violated_metrics |-> violated_metrics,
                     reasoning |-> <<"Comment violates", standard.name,
                                     "standard based on metrics:", violated_metrics>>] >>
        ELSE <<>>

\* mutant of _determine_action: a HIGH violation is flagged, not removed
_determine_action_HighFlags(self, score, violations) ==
    IF violations = <<>> THEN APPROVE
    ELSE IF \E i \in 1..Len(violations) : violations[i].severity = CRITICAL THEN REMOVE
    ELSE IF ~FracLess(score, self.threshold) /\ self.auto_moderate THEN HIDE_
    ELSE FLAG

\* mutant of _determine_action: HIDE only when the score exceeds the threshold
_determine_action_Strict(self, score, violations) ==
    IF violations = <<>> THEN APPROVE
    ELSE IF \E i \in 1..Len(violations) : violations[i].severity = CRITICAL THEN REMOVE
    ELSE IF \E i \in 1..Len(violations) : violations[i].severity = HIGH THEN REMOVE
    ELSE IF score.num * 100 > self.threshold * score.den /\ self.auto_moderate THEN HIDE_
    ELSE FLAG

\* _determine_action
_determine_action(self, score, violations) ==
    IF violations = <<>> THEN APPROVE
    ELSE IF \E i \in 1..Len(violations) : violations[i].severity = CRITICAL THEN REMOVE
    ELSE IF \E i \in 1..Len(violations) : violations[i].severity = HIGH THEN REMOVE
    ELSE IF ~FracLess(score, self.threshold) /\ self.auto_moderate THEN HIDE_
    ELSE FLAG

\* mutant of _calculate_confidence: the violation count factor is not capped
_calculate_confidence_Uncapped(score, violations) ==
    IF violations = <<>>
    THEN 1000
    ELSE LET max_severity_confidence == MaxOf({violations[i].confidence : i \in 1..Len(violations)})
         IN  (10 * max_severity_confidence + 200 * Len(violations)) \div 2

\* _calculate_confidence, in thousandths:
\* (max_severity_confidence + min(len(violations) / 5.0, 1.0)) / 2.0
_calculate_confidence(score, violations) ==
    IF violations = <<>>
    THEN 1000
    ELSE LET max_severity_confidence == MaxOf({violations[i].confidence : i \in 1..Len(violations)})
             violation_count_factor == MinOf({200 * Len(violations), 1000})
         IN  (10 * max_severity_confidence + violation_count_factor) \div 2

\* f"{score:.2f}": the overall score rounded to hundredths
Format2f(score) == (200 * score.num + score.den) \div (2 * score.den)

\* _generate_reasoning
_generate_reasoning(self, violations, score) ==
    IF violations = <<>>
    THEN <<"Comment passes all standards. No violations detected.">>
    ELSE <<"Found", Len(violations), "violation(s):",
           [i \in 1..Len(violations) |-> <<violations[i].standard, violations[i].reasoning>>],
           "Overall score:", Format2f(score), "threshold:", self.threshold>>

\* mutant of ModerateLoop: a disabled standard yields no violation but its
\* weight is still added to total_weight
RECURSIVE ModerateLoop_CountsDisabled(_, _, _, _)
ModerateLoop_CountsDisabled(self, comment, i, acc) ==
    IF i > Len(self.standards)
    THEN acc
    ELSE LET standard == self.standards[i]
             standard_violations ==
                 IF standard.enabled THEN _check_standard(self, comment, standard) ELSE <<>>
             violation_score ==
                 MaxOf({standard_violations[k].confidence : k \in 1..Len(standard_violations)})
         IN  ModerateLoop_CountsDisabled(self, comment, i + 1,
                    [violations |-> acc.violations \o standard_violations,
                     total_score |-> IF standard_violations # <<>>
                                     THEN acc.total_score + violation_score * standard.weight
                                     ELSE acc.total_score,
                     total_weight |-> acc.total_weight + standard.weight])

\* mutant of ModerateLoop: the weight of a violated standard is left out of
\* total_weight
RECURSIVE ModerateLoop_DropsWeight(_, _, _, _)
ModerateLoop_DropsWeight(self, comment, i, acc) ==
    IF i > Len(self.standards)
    THEN acc
    ELSE LET standard == self.standards[i] IN
         IF ~standard.enabled
         THEN ModerateLoop_DropsWeight(self, comment, i + 1, acc)
         ELSE LET standard_violations == _check_standard(self, comment, standard)
                  violation_score ==
                      MaxOf({standard_violations[k].confidence : k \in 1..Len(standard_violations)})
              IN  ModerateLoop_DropsWeight(self, comment, i + 1,
                    [violations |-> acc.violations \o standard_violations,
                     total_score |-> IF standard_violations # <<>>
                                     THEN acc.total_score + violation_score * standard.weight
                                     ELSE acc.total_score,
                     total_weight |-> IF standard_violations # <<>>
                                      THEN acc.total_weight
                                      ELSE acc.total_weight + standard.weight])

\* the loop of moderate over self.standards[i..]: violations, total_score, total_weight
RECURSIVE ModerateLoop(_, _, _, _)
ModerateLoop(self, comment, i, acc) ==
    IF i > Len(self.standards)
    THEN acc
    ELSE LET standard == self.standards[i] IN
         IF ~standard.enabled
         THEN ModerateLoop(self, comment, i + 1, acc)
         ELSE LET standard_violations == _check_standard(self, comment, standard)
                  violation_score ==
                      MaxOf({standard_violations[k].confidence : k \in 1..Len(standard_violations)})
              IN  ModerateLoop(self, comment, i + 1,
                    [violations |-> acc.violations \o standard_violations,
                     total_score |-> IF standard_violations # <<>>
                                     THEN acc.total_score + violation_score * standard.weight
                                     ELSE acc.total_score,
                     total_weight |-> acc.total_weight + standard.weight])

\* moderate: the ModerationResult but its timestamp
moderate(self, comment) ==
    LET acc == ModerateLoop(self, comment, 1,
                            [violations |-> <<>>, total_score |-> 0, total_weight |-> 0])
        final_score == IF acc.total_weight > 0
                       THEN [num |-> acc.total_score, den |-> 100 * acc.total_weight]
                       ELSE Zero
    IN  [comment |-> comment,
         action |-> _determine_action(self, final_score, acc.violations),
         violations |-> acc.violations,
         score |-> final_score,
         confidence |-> _calculate_confidence(final_score, acc.violations),
         reasoning |-> _generate_reasoning(self, acc.violations, final_score)]

\* ModerationResult.has_violations, ModerationResult.is_severe
has_violations(result) == Len(result.violations) > 0

is_severe(result) ==
    \E i \in 1..Len(result.violations) : result.violations[i].severity \in {HIGH, CRITICAL}

-----------------------------------------------------------------------------
(* The engine as a state machine                                           *)

\* the engine object the methods read
Self == [standards |-> standards, metrics |-> metrics,
         threshold |-> threshold, auto_moderate |-> auto_moderate]

\* what an operation returned
Returned(op, args, value) == [op |-> op, args |-> args, value |-> value]

\* mutant of ModerationResult: the time of the call leaks into the reasoning
ModerationResult_StampsReasoning(fields, timestamp) ==
    [comment |-> fields.comment, action |-> fields.action, violations |-> fields.violations,
     score |-> fields.score, confidence |-> fields.confidence,
     reasoning |-> Append(fields.reasoning, timestamp), timestamp |-> timestamp]

\* ModerationResult(...): timestamp = datetime.utcnow()
ModerationResult(fields, timestamp) ==
    [comment |-> fields.comment, action |-> fields.action, violations |-> fields.violations,
     score |-> fields.score, confidence |-> fields.confidence,
     reasoning |-> fields.reasoning, timestamp |-> timestamp]

\* position of the key in the ordered dict, 0 when missing
IndexOf(dict, name) ==
    IF \E i \in 1..Len(dict) : dict[i].name = name
    THEN CHOOSE i \in 1..Len(dict) : dict[i].name = name
    ELSE 0

\* dict[value.name] = value: an existing key keeps its place, a new key goes last
DictSet(dict, value) ==
    IF IndexOf(dict, value.name) > 0
    THEN [dict EXCEPT ![IndexOf(dict, value.name)] = value]
    ELSE Append(dict, value)

\* del dict[name]
DictDel(dict, name) == SelectSeq(dict, LAMBDA s : s.name # name)

\* an optional argument: None, or a value
NoArg == [given |-> FALSE]

Arg(v) == [given |-> TRUE, value |-> v]

\* StandardsEngine.__init__: `standards or DEFAULT_STANDARDS.copy()` takes the
\* defaults for None and for an empty dict alike
InitStandards(arg) ==
    IF ~arg.given \/ Len(arg.value) = 0 THEN DEFAULT_STANDARDS ELSE arg.value

InitMetrics(arg) ==
    IF ~arg.given \/ DOMAIN arg.value = {} THEN DEFAULT_METRICS ELSE arg.value

\* the names a caller uses for standards, and the history kept of them:
\*   "no"        no disable_standard(n) succeeded since the last enable_standard(n)
\*   "disabled"  disable_standard(n) succeeded, no enable_standard(n) call since
\*   "readded"   as "disabled", and add_standard registered an enabled n since
StandardNames == {"safety", "quality"}

NoHistory == [n \in StandardNames |-> "no"]

__init__(standards_arg, metrics_arg, threshold_arg, auto_moderate_arg) ==
    /\ standards = InitStandards(standards_arg)
    /\ metrics = InitMetrics(metrics_arg)
    /\ threshold = threshold_arg
    /\ auto_moderate = auto_moderate_arg
    /\ _cache = <<>>
    /\ ret = Returned("__init__", None, None)
    /\ now = 0
    /\ ctor = [standards |-> standards_arg, metrics |-> metrics_arg]
    /\ disabled = NoHistory
    /\ memo = NoArg

\* mutant of Moderate: the result is kept in the engine's cache
Moderate_Caches(comment) ==
    /\ ret' = Returned("moderate", comment, ModerationResult(moderate(Self, comment), now))
    /\ _cache' = <<comment.id>>
    /\ UNCHANGED <<standards, metrics, threshold, auto_moderate, validatorVars, now, historyVars, utilityVars>>

\* moderate(comment): reads the engine, writes nothing; the history notes a
\* call on another text than the remembered one
Moderate(comment) ==
    /\ ret' = Returned("moderate", comment, ModerationResult(moderate(Self, comment), now))
    /\ memo' = IF memo.given /\ comment.text # memo.value.comment.text
               THEN Arg([memo.value EXCEPT !.between = TRUE])
               ELSE memo
    /\ UNCHANGED <<engineVars, validatorVars, now, ctor, disabled, utilityVars>>

add_standard(standard) ==
    /\ standards' = DictSet(standards, standard)
    /\ ret' = Returned("add_standard", standard.name, None)
    /\ disabled' = IF standard.name \in StandardNames /\ standard.enabled
                      /\ disabled[standard.name] = "disabled"
                   THEN [disabled EXCEPT ![standard.name] = "readded"]
                   ELSE disabled
    /\ UNCHANGED <<metrics, threshold, auto_moderate, _cache, validatorVars, now, ctor, memo, utilityVars>>

\* mutant of remove_standard: reports success for a name that is not registered
remove_standard_AlwaysTrue(name) ==
    /\ standards' = DictDel(standards, name)
    /\ ret' = Returned("remove_standard", name, TRUE)
    /\ UNCHANGED <<metrics, threshold, auto_moderate, _cache, validatorVars, now, historyVars, utilityVars>>

remove_standard(name) ==
    /\ standards' = IF IndexOf(standards, name) > 0 THEN DictDel(standards, name) ELSE standards
    /\ ret' = Returned("remove_standard", name, IndexOf(standards, name) > 0)
    /\ UNCHANGED <<metrics, threshold, auto_moderate, _cache, validatorVars, now, historyVars, utilityVars>>

add_metric(metric) ==
    /\ metrics' = [n \in DOMAIN metrics \cup {metric.name} |->
                     IF n = metric.name THEN metric ELSE metrics[n]]
    /\ ret' = Returned("add_metric", metric.name, None)
    /\ UNCHANGED <<standards, threshold, auto_moderate, _cache, validatorVars, now, historyVars, utilityVars>>

remove_metric(name) ==
    /\ metrics' = IF name \in DOMAIN metrics
                  THEN [n \in DOMAIN metrics \ {name} |-> metrics[n]]
                  ELSE metrics
    /\ ret' = Returned("remove_metric", name, name \in DOMAIN metrics)
    /\ UNCHANGED <<standards, threshold, auto_moderate, _cache, validatorVars, now, historyVars, utilityVars>>

enable_standard(name) ==
    /\ standards' = IF IndexOf(standards, name) > 0
                    THEN [standards EXCEPT ![IndexOf(standards, name)].enabled = TRUE]
                    ELSE standards
    /\ ret' = Returned("enable_standard", name, IndexOf(standards, name) > 0)
    /\ disabled' = IF name \in StandardNames
                   THEN [disabled EXCEPT ![name] = "no"]
                   ELSE disabled
    /\ UNCHANGED <<metrics, threshold, auto_moderate, _cache, validatorVars, now, ctor, memo, utilityVars>>

disable_standard(name) ==
    /\ standards' = IF IndexOf(standards, name) > 0
                    THEN [standards EXCEPT ![IndexOf(standards, name)].enabled = FALSE]
                    ELSE standards
    /\ ret' = Returned("disable_standard", name, IndexOf(standards, name) > 0)
    /\ disabled' = IF name \in StandardNames /\ IndexOf(standards, name) > 0
                   THEN [disabled EXCEPT ![name] = "disabled"]
                   ELSE disabled
    /\ UNCHANGED <<metrics, threshold, auto_moderate, _cache, validatorVars, now, ctor, memo, utilityVars>>

-----------------------------------------------------------------------------
(* Spec: an engine built on a caller's registries, under every registry    *)
(* operation and moderate()                                                *)

\* the tokens of generated comment texts
Vocabulary == {"nice", "Kill"}

\* every text of up to MaxWords tokens, a whitespace-only text, and a text
\* whose one word holds two matches of the threats pattern
Texts == SeqsUpTo(Vocabulary, MaxWords) \cup {<<Blank>>, <<"killkill">>}

Comments == {Comment("c1", t) : t \in Texts}

\* the default threats pattern, reused by the caller's metrics
ThreatsPattern == DEFAULT_METRICS["threats"].check_pattern

\* metrics a caller registers: defaults, and its own with thresholds in the
\* LOW and CRITICAL bands and one outside [0, 1]
MetricPool ==
    { DEFAULT_METRICS["threats"],
      Metric("threats", ThreatsPattern, CRITICAL, 90, TRUE),
      Metric("threats", ThreatsPattern, CRITICAL, 150, TRUE),
      Metric("caution", Alt({"nice"}), LOW, 30, TRUE) }

\* names a caller removes: a registered one and one never registered
RemovedMetricNames == {"threats", "missing"}

\* standards a caller registers; the last has a weight that is not positive
StandardPool ==
    { Standard("safety", <<"threats">>, TRUE, 15, 60),
      Standard("quality", <<"substance", "caution", "missing">>, TRUE, 10, 70),
      Standard("quality", <<"substance", "caution", "missing">>, TRUE, -10, 70) }

\* engine.threshold given to the constructor; 70 is its default
ThresholdArgs == {50, 70}

\* no MetricsValidator is in use
NoValidator == validator_metrics = <<>> /\ _custom_validators = <<>>

Init ==
    \E t \in ThresholdArgs, a \in BOOLEAN :
      /\ NoValidator
      /\ NoUtilities
      /\ __init__(Arg(<< Standard("safety", <<"threats">>, TRUE, 15, 60),
                          Standard("quality", <<"substance", "caution", "missing">>, TRUE, 10, 70) >>),
                  Arg(DictOf({DEFAULT_METRICS["threats"], DEFAULT_METRICS["substance"]})),
                  t, a)

Next ==
    \/ \E c \in Comments : Moderate(c)
    \/ \E s \in StandardPool : add_standard(s)
    \/ \E n \in StandardNames : remove_standard(n)
    \/ \E m \in MetricPool : add_metric(m)
    \/ \E n \in RemovedMetricNames : remove_metric(n)
    \/ \E n \in StandardNames : enable_standard(n)
    \/ \E n \in StandardNames : disable_standard(n)

Spec == Init /\ [][Next]_vars

-----------------------------------------------------------------------------
(* Properties of Spec                                                      *)

\* the last operation was moderate()
Moderated == ret.op = "moderate"

\* the pattern is found in the text (searched without regard to case)
PatternMatches(p, text) == ~CompileFails(p) /\ findall(p, lower(text)) # <<>>

Severities(result) == {result.violations[i].severity : i \in 1..Len(result.violations)}

\* score >= t hundredths
ScoreAtLeast(score, t) == score.num * 100 >= t * score.den

\* C1: the action of a result follows the ordered policy, first match wins:
\* APPROVE without violations, else REMOVE on a CRITICAL violation, else REMOVE
\* on a HIGH violation, else HIDE if score >= engine.threshold and
\* auto_moderate, else FLAG.
C1_ActionPolicy ==
    Moderated =>
        LET r == ret.value IN
        r.action = IF r.violations = <<>> THEN APPROVE
                   ELSE IF CRITICAL \in Severities(r) THEN REMOVE
                   ELSE IF HIGH \in Severities(r) THEN REMOVE
                   ELSE IF ScoreAtLeast(r.score, threshold) /\ auto_moderate THEN HIDE_
                   ELSE FLAG

\* C1 witness: a result hidden with its score exactly at the engine threshold
C1_Witness ==
    /\ Moderated
    /\ ret.value.action = HIDE_
    /\ ret.value.score.num * 100 = threshold * ret.value.score.den

\* no enabled metric of the registry has a pattern found in the text
NoMetricMatches(text) ==
    \A n \in DOMAIN metrics :
        metrics[n].enabled => ~PatternMatches(metrics[n].check_pattern, text)

\* C2: a comment in which no enabled metric's pattern matches is approved,
\* with no violations and confidence 1.0, in every reachable engine state.
C2_CleanApproved ==
    (Moderated /\ NoMetricMatches(ret.args.text)) =>
        /\ ret.value.action = APPROVE
        /\ ret.value.violations = <<>>
        /\ ret.value.confidence = 1000

\* C2 witness: a text with words moderated while no enabled metric matches it,
\* on registries changed since construction
C2_Witness ==
    /\ Moderated
    /\ NoMetricMatches(ret.args.text)
    /\ Len(ret.args.text) > 0
    /\ "caution" \in DOMAIN metrics
    /\ \E i \in 1..Len(standards) : standards[i].enabled

\* the metric is referenced by an enabled standard
Referenced(n) ==
    \E i \in 1..Len(standards) : standards[i].enabled /\ n \in Range(standards[i].metrics)

\* C3 (as claimed): a registered, enabled metric of severity CRITICAL that an
\* enabled standard references and whose pattern matches the text makes the
\* action REMOVE.
C3_CriticalRemoves ==
    (Moderated /\ \E n \in DOMAIN metrics :
                      /\ metrics[n].severity = CRITICAL
                      /\ metrics[n].enabled
                      /\ Referenced(n)
                      /\ PatternMatches(metrics[n].check_pattern, ret.args.text))
        => ret.value.action = REMOVE

\* the result shows no influence of the standard named n: no violation of it,
\* and the score of the engine without it
NoInfluence(n) ==
    /\ \A i \in 1..Len(ret.value.violations) : ret.value.violations[i].standard # n
    /\ FracEq(ret.value.score,
              moderate([Self EXCEPT !.standards = DictDel(standards, n)], ret.args).score)

ValidRegistries ==
    /\ \A n \in DOMAIN metrics : metrics[n].threshold >= 0 /\ metrics[n].threshold <= 100
    /\ \A i \in 1..Len(standards) : standards[i].weight > 0

\* C9: with all thresholds in [0, 1] and all weights positive, the score
\* and the confidence of a result are in [0, 1].
C9_ScoreAndConfidenceInUnit ==
    (Moderated /\ ValidRegistries) =>
        /\ ret.value.score.num >= 0
        /\ ret.value.score.num <= ret.value.score.den
        /\ ret.value.confidence >= 0
        /\ ret.value.confidence <= 1000

\* C9 witness: valid registries, two standards violated, a score strictly
\* between 0 and 1
C9_Witness ==
    /\ Moderated
    /\ ValidRegistries
    /\ Len(ret.value.violations) = 2
    /\ ret.value.score.num > 0
    /\ ret.value.score.num < ret.value.score.den

-----------------------------------------------------------------------------
(* SpecDefault: an engine built on the default catalog, StandardsEngine()  *)
(* or StandardsEngine(standards={}, metrics={}), under moderate() and      *)
(* enable/disable of two of its standards                                  *)

StupidIdiotText == <<"You", "are", "stupid", "and", "idiot">>

ShitFuckText == <<"This", "is", "SHIT", "and", "FUCK">>

DefaultTexts ==
    {StupidIdiotText, ShitFuckText, <<"stupid", "idiot">>, <<"Kill">>, <<"nice">>, <<>>}

DefaultComments == {Comment("127", t) : t \in DefaultTexts}

DefaultStandardNames == {"safety", "policy"}

\* standards and metrics left out, or given as empty dicts
CatalogArgs == {NoArg, Arg(<<>>)}

InitDefault ==
    \E s \in CatalogArgs, m \in CatalogArgs, t \in ThresholdArgs, a \in BOOLEAN :
      /\ NoValidator
      /\ NoUtilities
      /\ __init__(s, m, t, a)

NextDefault ==
    \/ \E c \in DefaultComments : Moderate(c)
    \/ \E n \in DefaultStandardNames : enable_standard(n)
    \/ \E n \in DefaultStandardNames : disable_standard(n)

SpecDefault == InitDefault /\ [][NextDefault]_vars

\* C4 (as claimed): the engine with the default catalog, all of it enabled,
\* never approves "You are stupid and idiot" or "This is SHIT and FUCK": the
\* result has violations and its action is FLAG, HIDE or REMOVE.
C4_DefaultNeverApproves ==
    (/\ Moderated
     /\ standards = DEFAULT_STANDARDS
     /\ metrics = DEFAULT_METRICS
     /\ ret.args.text \in {StupidIdiotText, ShitFuckText})
        => /\ has_violations(ret.value)
           /\ ret.value.action \in {FLAG, HIDE_, REMOVE}

\* C6 (as claimed): an engine constructed with standards = {} approves every
\* comment with score 0.0.
C6_EmptyRegistryApproves ==
    (Moderated /\ ctor.standards.given /\ Len(ctor.standards.value) = 0)
        => /\ ret.value.action = APPROVE
           /\ ret.value.score.num = 0

-----------------------------------------------------------------------------
(* MetricsValidator: src/src/core/metrics.py                               *)

\* the validator object
ValidatorSelf == [metrics |-> validator_metrics, _custom_validators |-> _custom_validators]

\* the callables registered as custom validators, by name:
\*   "always_fail"       lambda comment, metric: (False, 1.0, "forced")
\*   "custom_validator"  returns (True, 0.0, "Custom check passed")
\*   "raising"           raises RuntimeError
Validators == {"always_fail", "custom_validator", "raising"}

\* the outcome of a call that raised instead of returning
Raised(exception) == [raised |-> exception]

Raises(outcome) == "raised" \in DOMAIN outcome

Call(validator, comment, metric) ==
    CASE validator = "always_fail" ->
           [passed |-> FALSE, score |-> [num |-> 1, den |-> 1], reasoning |-> <<"forced">>]
      [] validator = "raising" -> Raised("RuntimeError")
      [] OTHER -> [passed |-> TRUE, score |-> Zero, reasoning |-> <<"Custom check passed">>]

\* MetricsValidator._calculate_score: min(match_count / word_count, 1.0),
\* and 1.0 for a text without words
_calculate_score(matches, text) ==
    LET word_count == Len(split(text))
        match_count == Len(matches)
    IN  IF matches = <<>> THEN Zero
        ELSE IF word_count > 0
        THEN IF match_count < word_count
             THEN [num |-> match_count, den |-> word_count]
             ELSE [num |-> 1, den |-> 1]
        ELSE [num |-> 1, den |-> 1]

\* MetricsValidator._generate_reasoning: the first three matches are listed
\* (no token of the vocabulary is longer than the 20 characters kept of each)
validator_generate_reasoning(matches, metric, score) ==
    IF matches = <<>>
    THEN <<"No violations found for", metric.name>>
    ELSE <<"Found", Len(matches), "violation(s) for", metric.name,
           SubSeq(matches, 1, MinOf({3, Len(matches)})),
           IF Len(matches) > 3 THEN <<"and", Len(matches) - 3, "more">> ELSE <<>>,
           "Score:", Format2f(score), "threshold:", metric.threshold>>

\* MetricsValidator._default_validate
_default_validate(comment, metric) ==
    LET text == lower(comment.text) IN
    IF CompileFails(metric.check_pattern)
    THEN [passed |-> TRUE, score |-> Zero, reasoning |-> <<"Error validating", metric.name>>]
    ELSE LET matches == findall(metric.check_pattern, text) IN
         IF matches # <<>>
         THEN LET score == _calculate_score(matches, text)
              IN  [passed |-> FracLess(score, metric.threshold),
                   score |-> score,
                   reasoning |-> validator_generate_reasoning(matches, metric, score)]
         ELSE [passed |-> TRUE, score |-> Zero,
               reasoning |-> <<"No violations found for", metric.name>>]

\* mutant of validate: the default algorithm, whatever validator is registered
validate_DefaultOnly(self, comment, metric) ==
    IF metric \notin DOMAIN self.metrics
    THEN [passed |-> TRUE, score |-> Zero, reasoning |-> <<"Metric", metric, "not found">>]
    ELSE _default_validate(comment, self.metrics[metric])

\* MetricsValidator.validate
validate(self, comment, metric) ==
    IF metric \notin DOMAIN self.metrics
    THEN [passed |-> TRUE, score |-> Zero, reasoning |-> <<"Metric", metric, "not found">>]
    ELSE IF metric \in DOMAIN self._custom_validators
    THEN Call(self._custom_validators[metric], comment, self.metrics[metric])
    ELSE _default_validate(comment, self.metrics[metric])

\* MetricsValidator.validate_all: a dict, the last result of a repeated name;
\* the first validate call that raises ends the loop
validate_all(self, comment, metric_names) ==
    LET raising == {i \in 1..Len(metric_names) : Raises(validate(self, comment, metric_names[i]))}
    IN  IF raising # {}
        THEN validate(self, comment, metric_names[MinOf(raising)])
        ELSE [m \in Range(metric_names) |-> validate(self, comment, m)]

\* a function with one key set, and with one key deleted
FunSet(f, k, v) == [x \in DOMAIN f \cup {k} |-> IF x = k THEN v ELSE f[x]]

FunDel(f, k) == [x \in DOMAIN f \ {k} |-> f[x]]

\* MetricsValidator.__init__: `metrics or {}`
MetricsValidator__init__(metrics_arg) ==
    /\ validator_metrics = (IF metrics_arg.given THEN metrics_arg.value ELSE <<>>)
    /\ _custom_validators = <<>>

Validate(comment, metric) ==
    /\ ret' = Returned("validate", [comment |-> comment, metric |-> metric],
                       validate(ValidatorSelf, comment, metric))
    /\ UNCHANGED <<engineVars, validatorVars, now, historyVars, utilityVars>>

ValidateAll(comment, metric_names) ==
    /\ ret' = Returned("validate_all", [comment |-> comment, metrics |-> metric_names],
                       validate_all(ValidatorSelf, comment, metric_names))
    /\ UNCHANGED <<engineVars, validatorVars, now, historyVars, utilityVars>>

add_custom_validator(metric_name, validator) ==
    /\ _custom_validators' = FunSet(_custom_validators, metric_name, validator)
    /\ ret' = Returned("add_custom_validator", metric_name, None)
    /\ UNCHANGED <<engineVars, validator_metrics, now, historyVars, utilityVars>>

remove_custom_validator(metric_name) ==
    /\ _custom_validators' = FunDel(_custom_validators, metric_name)
    /\ ret' = Returned("remove_custom_validator", metric_name,
                       metric_name \in DOMAIN _custom_validators)
    /\ UNCHANGED <<engineVars, validator_metrics, now, historyVars, utilityVars>>

validator_add_metric(metric) ==
    /\ validator_metrics' = FunSet(validator_metrics, metric.name, metric)
    /\ ret' = Returned("validator.add_metric", metric.name, None)
    /\ UNCHANGED <<engineVars, _custom_validators, now, historyVars, utilityVars>>

validator_remove_metric(metric_name) ==
    /\ validator_metrics' = FunDel(validator_metrics, metric_name)
    /\ ret' = Returned("validator.remove_metric", metric_name,
                       metric_name \in DOMAIN validator_metrics)
    /\ UNCHANGED <<engineVars, _custom_validators, now, historyVars, utilityVars>>

-----------------------------------------------------------------------------
(* SpecValidator: a MetricsValidator and a StandardsEngine over the same   *)
(* metrics; the caller registers custom validators and validates/moderates *)

\* the validator fixture of tests/unit/test_core.py
ProfanityFixture == Metric("profanity", AltB({"shit", "fuck", "damn"}), MEDIUM, 50, TRUE)

AlwaysFailMetric == Metric("always_fail", AltB({"damn"}), LOW, 30, TRUE)

BrokenMetric == Metric("broken", Bad, LOW, 50, TRUE)

ValidatorMetricPool == {ProfanityFixture, AlwaysFailMetric, BrokenMetric}

ValidatorMetricNames == {m.name : m \in ValidatorMetricPool}

ForcedStandard == Standard("forced", <<"always_fail">>, TRUE, 10, 70)

ContainsShitText == <<"This", "contains", "shit">>

ValidatorTexts ==
    {ContainsShitText, <<"shit">>, <<"nice">>, <<"damn", "damn", "damn", "damn">>, <<>>}

ValidatorComments == {Comment("127", t) : t \in ValidatorTexts}

InitValidator ==
    /\ \E arg \in {NoArg, Arg(DictOf({ProfanityFixture}))} : MetricsValidator__init__(arg)
    /\ NoUtilities
    /\ __init__(Arg(<<ForcedStandard>>), Arg(DictOf(ValidatorMetricPool)), 50, TRUE)

NextValidator ==
    \/ \E c \in ValidatorComments, m \in ValidatorMetricNames : Validate(c, m)
    \/ \E c \in ValidatorComments : ValidateAll(c, <<"profanity", "always_fail">>)
    \/ \E n \in {"always_fail", "profanity"}, v \in Validators : add_custom_validator(n, v)
    \/ \E n \in {"always_fail", "profanity"} : remove_custom_validator(n)
    \/ \E m \in ValidatorMetricPool : validator_add_metric(m)
    \/ \E n \in ValidatorMetricNames : validator_remove_metric(n)
    \/ \E c \in ValidatorComments : Moderate(c)

SpecValidator == InitValidator /\ [][NextValidator]_vars

Validated == ret.op = "validate"

\* C5 (as claimed): for a registered metric without a custom validator,
\* validate returns passed == False and score > 0 when the pattern matches
\* the comment text at least once, and passed == True and score == 0.0 when
\* it does not match.
C5_FoundMeansFailed ==
    (/\ Validated
     /\ ret.args.metric \in DOMAIN validator_metrics
     /\ ret.args.metric \notin DOMAIN _custom_validators
     /\ ~CompileFails(validator_metrics[ret.args.metric].check_pattern))
        => IF PatternMatches(validator_metrics[ret.args.metric].check_pattern,
                             ret.args.comment.text)
           THEN ~ret.value.passed /\ ret.value.score.num > 0
           ELSE ret.value.passed /\ ret.value.score.num = 0

\* C7 (as claimed): once the evaluator that always fails is registered for
\* the metric "always_fail", moderate() returns, for every comment, a
\* violation for every enabled standard that references the metric, and a
\* violation whose only violated metric it is has the metric's threshold as
\* its confidence.
C7_AlwaysFailViolates ==
    (/\ Moderated
     /\ "always_fail" \in DOMAIN _custom_validators
     /\ _custom_validators["always_fail"] = "always_fail"
     /\ "always_fail" \in DOMAIN metrics
     /\ metrics["always_fail"].enabled)
        => \A i \in 1..Len(standards) :
             (standards[i].enabled /\ "always_fail" \in Range(standards[i].metrics))
               => \E j \in 1..Len(ret.value.violations) :
                    LET v == ret.value.violations[j] IN
                    /\ v.standard = standards[i].name
                    /\ "always_fail" \in Range(v.violated_metrics)
                    /\ (v.violated_metrics = <<"always_fail">>
                          => v.confidence = metrics["always_fail"].threshold)

-----------------------------------------------------------------------------
(* SpecMemo: the clock advances between calls, the caller keeps the result *)
(* of one moderate() call and compares later calls with it                 *)

MaxClock == 2        \* the clock stops after this many ticks

\* time passes
Tick ==
    /\ now < MaxClock
    /\ now' = now + 1
    /\ UNCHANGED <<engineVars, validatorVars, ret, historyVars, utilityVars>>

\* the caller keeps the result moderate() just returned, with the engine it
\* was computed on (no operation changes the engine without changing ret)
Remember ==
    /\ ret.op = "moderate"
    /\ memo' = Arg([self |-> Self, comment |-> ret.args, result |-> ret.value,
                    between |-> FALSE])
    /\ UNCHANGED <<engineVars, validatorVars, ret, now, ctor, disabled, utilityVars>>

MemoComments == {Comment(id, t) : id \in {"127", "128"}, t \in {<<"Kill">>, <<"Kill", "nice">>, <<"nice">>}}

InitMemo ==
    \E a \in BOOLEAN :
      /\ NoValidator
      /\ NoUtilities
      /\ __init__(Arg(<<Standard("safety", <<"threats">>, TRUE, 15, 60),
                        Standard("quality", <<"substance">>, TRUE, 10, 70)>>),
                  Arg(DictOf({DEFAULT_METRICS["threats"], DEFAULT_METRICS["substance"]})),
                  50, a)

NextMemo ==
    \/ \E c \in MemoComments : Moderate(c)
    \/ Tick
    \/ Remember
    \/ enable_standard("safety")
    \/ disable_standard("safety")

SpecMemo == InitMemo /\ [][NextMemo]_vars

\* the fields of a result other than comment and timestamp
Verdict(result) ==
    [action |-> result.action, violations |-> result.violations, score |-> result.score,
     confidence |-> result.confidence, reasoning |-> result.reasoning]

SameCallAsRemembered ==
    /\ Moderated
    /\ memo.given
    /\ memo.value.self = Self
    /\ memo.value.comment.text = ret.args.text

\* C10: moderate() is deterministic and keeps no memory: a call on the same
\* registries, threshold, auto_moderate and comment text as a remembered
\* earlier call returns the same action, violations, score, confidence and
\* reasoning, whatever the clock, the comment id and the calls in between.
C10_Deterministic ==
    SameCallAsRemembered => Verdict(ret.value) = Verdict(memo.value.result)

\* a later call at another time, under another comment id, after a call on
\* another text, that repeats a remembered call with violations
C10_Witness ==
    /\ SameCallAsRemembered
    /\ memo.value.between
    /\ memo.value.comment.id # ret.args.id
    /\ memo.value.result.timestamp # ret.value.timestamp
    /\ has_violations(ret.value)

-----------------------------------------------------------------------------
(* SpecRegistry: registry operations of the engine and of the validator on *)
(* names that are registered and names that are not                        *)

RegistryStandardNames == {"safety", "nonexistent"}

RegistryMetricNames == {"threats", "nonexistent_metric"}

RegistryComments == {Comment("127", <<"Kill">>), Comment("127", <<"nice">>)}

InitRegistry ==
    /\ MetricsValidator__init__(Arg(DictOf({DEFAULT_METRICS["threats"]})))
    /\ NoUtilities
    /\ \E a \in BOOLEAN :
         __init__(Arg(<<Standard("safety", <<"threats">>, TRUE, 15, 60)>>),
                  Arg(DictOf({DEFAULT_METRICS["threats"]})), 70, a)

NextRegistry ==
    \/ add_standard(Standard("safety", <<"threats">>, TRUE, 15, 60))
    \/ \E n \in RegistryStandardNames : remove_standard(n)
    \/ \E n \in RegistryStandardNames : enable_standard(n)
    \/ \E n \in RegistryStandardNames : disable_standard(n)
    \/ add_metric(DEFAULT_METRICS["threats"])
    \/ \E n \in RegistryMetricNames : remove_metric(n)
    \/ validator_add_metric(DEFAULT_METRICS["threats"])
    \/ \E n \in RegistryMetricNames : validator_remove_metric(n)
    \/ \E c \in RegistryComments, m \in RegistryMetricNames : Validate(c, m)
    \/ \E c \in RegistryComments : Moderate(c)

SpecRegistry == InitRegistry /\ [][NextRegistry]_vars

RegistriesUnchanged == UNCHANGED <<standards, metrics, validator_metrics, _custom_validators>>

\* the step is a call of a standard operation on a name that is not registered
OnMissingStandard ==
    /\ ret'.op \in {"remove_standard", "enable_standard", "disable_standard"}
    /\ IndexOf(standards, ret'.args) = 0

OnMissingMetric == ret'.op = "remove_metric" /\ ret'.args \notin DOMAIN metrics

ValidateMissingMetric == ret'.op = "validate" /\ ret'.args.metric \notin DOMAIN validator_metrics

\* C11: remove_standard, enable_standard, disable_standard and remove_metric
\* on a name that is not registered return False, and validate on a metric
\* that is not registered returns (True, 0.0, "Metric ... not found"); none
\* of these calls changes a registry.
C11_SoftFail ==
    [][ /\ OnMissingStandard => (ret'.value = FALSE /\ RegistriesUnchanged)
        /\ OnMissingMetric => (ret'.value = FALSE /\ RegistriesUnchanged)
        /\ ValidateMissingMetric =>
             /\ ret'.value.passed
             /\ ret'.value.score = Zero
             /\ ret'.value.reasoning = <<"Metric", ret'.args.metric, "not found">>
             /\ RegistriesUnchanged ]_vars

\* remove_standard of a name that is not registered has returned False
C11_Witness ==
    /\ ret.op = "remove_standard"
    /\ ret.args = "nonexistent"
    /\ ret.value = FALSE
    /\ IndexOf(standards, "safety") > 0

-----------------------------------------------------------------------------
(* Properties of Spec: violations, score and confidence of a result        *)

\* the metrics of the standard that are registered, enabled and fail on the text
ViolatedMetrics(standard, comment) ==
    SelectSeq(standard.metrics,
              LAMBDA m : /\ m \in DOMAIN metrics
                         /\ metrics[m].enabled
                         /\ ~_check_metric(comment, metrics[m]).passed)

\* the severity bands on a confidence in hundredths
Band(confidence) ==
    CASE confidence < 50 -> LOW
      [] confidence >= 50 /\ confidence < 70 -> MEDIUM
      [] confidence >= 70 /\ confidence < 90 -> HIGH
      [] OTHER -> CRITICAL

\* the positions of the violations of the standard in the result
ViolationsOf(result, name) ==
    {j \in 1..Len(result.violations) : result.violations[j].standard = name}

\* C12: an enabled standard with violated metrics gets exactly one Violation,
\* its confidence the largest threshold among the violated metrics and its
\* severity the band of that confidence; any other standard gets none.
C12_OneViolationPerStandard ==
    Moderated =>
      \A i \in 1..Len(standards) :
        LET s == standards[i]
            vm == ViolatedMetrics(s, ret.args)
            vs == ViolationsOf(ret.value, s.name)
        IN  IF s.enabled /\ vm # <<>>
            THEN /\ Cardinality(vs) = 1
                 /\ \A j \in vs :
                      LET v == ret.value.violations[j] IN
                      /\ v.confidence = MaxOf({metrics[m].threshold : m \in Range(vm)})
                      /\ v.severity = Band(v.confidence)
            ELSE vs = {}

\* a violation on two violated metrics of different thresholds, next to an
\* enabled standard without a violation
C12_Witness ==
    /\ Moderated
    /\ \E j \in 1..Len(ret.value.violations) :
         LET v == ret.value.violations[j] IN
         /\ Len(v.violated_metrics) = 2
         /\ metrics[v.violated_metrics[1]].threshold # metrics[v.violated_metrics[2]].threshold
    /\ \E i \in 1..Len(standards) :
         standards[i].enabled /\ ViolationsOf(ret.value, standards[i].name) = {}

\* sum of f over the positions 1..n
RECURSIVE SumTo(_, _)
SumTo(f, n) == IF n = 0 THEN 0 ELSE f[n] + SumTo(f, n - 1)

\* total_weight: the weights of the enabled standards
TotalWeight ==
    SumTo([i \in 1..Len(standards) |-> IF standards[i].enabled THEN standards[i].weight ELSE 0],
          Len(standards))

\* total_score: confidence * weight over the violations of the result
TotalScore(result) ==
    SumTo([j \in 1..Len(result.violations) |->
             result.violations[j].confidence
               * standards[IndexOf(standards, result.violations[j].standard)].weight],
          Len(result.violations))

\* C13 (as claimed): the score is total_score / total_weight over the enabled
\* standards, and 0 when total_weight = 0.
C13_WeightedScore ==
    Moderated =>
      IF TotalWeight = 0
      THEN ret.value.score.num = 0
      ELSE ret.value.score.num * (100 * TotalWeight) = TotalScore(ret.value) * ret.value.score.den

-----------------------------------------------------------------------------
(* SpecMany: an engine whose caller registers up to six standards, each on *)
(* a metric that fails on every non-empty text                             *)

ManyNames == {"s1", "s2", "s3", "s4", "s5", "s6"}

\* thresholds in the LOW and MEDIUM bands
ManyMetrics ==
    DictOf({Metric("length", Dot, LOW, 40, TRUE), Metric("tone", Dot, LOW, 60, TRUE)})

ManyStandard(n) == Standard(n, IF n = "s1" THEN <<"tone">> ELSE <<"length">>, TRUE, 10, 70)

ManyComments == {Comment("127", <<"nice">>), Comment("127", <<>>)}

InitMany ==
    /\ NoValidator
    /\ NoUtilities
    /\ __init__(Arg(<<ManyStandard("s1")>>), Arg(ManyMetrics), 70, TRUE)

NextMany ==
    \/ \E n \in ManyNames : add_standard(ManyStandard(n))
    \/ \E n \in ManyNames : remove_standard(n)
    \/ \E c \in ManyComments : Moderate(c)

SpecMany == InitMany /\ [][NextMany]_vars

\* C14: the confidence of a result is 1.0 without violations, and otherwise
\* (max_violation_confidence + min(violation_count / 5, 1.0)) / 2.
C14_Confidence ==
    Moderated =>
      LET vs == ret.value.violations
          count == Len(vs)
      IN  IF count = 0
          THEN ret.value.confidence = 1000
          ELSE 2 * ret.value.confidence
                 = 10 * MaxOf({vs[j].confidence : j \in 1..count})
                   + (IF 200 * count < 1000 THEN 200 * count ELSE 1000)

\* six violations of different confidences: the count factor is capped
C14_Witness ==
    /\ Moderated
    /\ Len(ret.value.violations) = 6
    /\ \E j, k \in 1..6 : ret.value.violations[j].confidence # ret.value.violations[k].confidence

-----------------------------------------------------------------------------
(* SpecSkip: a standard that references a metric never registered, one the *)
(* caller removes or registers disabled, and one that stays registered     *)

\* registered enabled or disabled by the caller; its threshold is the largest
CautionMetric(enabled) == Metric("caution", Alt({"nice"}), CRITICAL, 95, enabled)

SkipStandards ==
    << Standard("quality", <<"missing", "caution", "substance">>, TRUE, 10, 70),
       Standard("safety", <<"threats">>, TRUE, 15, 60) >>

SkipComments == {Comment("127", t) : t \in {<<"nice">>, <<"Kill">>, <<"nice", "Kill">>}}

InitSkip ==
    \E a \in BOOLEAN :
      /\ NoValidator
      /\ NoUtilities
      /\ __init__(Arg(SkipStandards),
                  Arg(DictOf({DEFAULT_METRICS["threats"], DEFAULT_METRICS["substance"],
                              CautionMetric(TRUE)})),
                  70, a)

NextSkip ==
    \/ \E m \in {CautionMetric(TRUE), CautionMetric(FALSE), DEFAULT_METRICS["threats"]} :
         add_metric(m)
    \/ \E n \in {"caution", "threats"} : remove_metric(n)
    \/ enable_standard("quality")
    \/ disable_standard("quality")
    \/ \E c \in SkipComments : Moderate(c)

SpecSkip == InitSkip /\ [][NextSkip]_vars

\* the metric is missing from the registry or disabled
Skipped(m) == m \notin DOMAIN metrics \/ ~metrics[m].enabled

\* the confidence a violation has when only the registered, enabled metrics
\* of its standard that fail on the text count
ConfidenceOf(standard, comment) ==
    MaxOf({metrics[m].threshold :
             m \in {x \in Range(standard.metrics) :
                      ~Skipped(x) /\ ~_check_metric(comment, metrics[x]).passed}})

\* C15: moderate() returns a result whatever the standards reference; a
\* metric that is missing from the registry or disabled is in no
\* violated_metrics list and adds nothing to a violation's confidence, and
\* the other metrics of the standard are still evaluated.
C15_SkipsMissingAndDisabled ==
    Moderated =>
      /\ ret.value.action \in ModerationAction
      /\ \A j \in 1..Len(ret.value.violations) :
           LET v == ret.value.violations[j]
               s == standards[IndexOf(standards, v.standard)]
           IN  /\ \A m \in Range(v.violated_metrics) : ~Skipped(m)
               /\ v.confidence = ConfidenceOf(s, ret.args)
      /\ \A i \in 1..Len(standards) :
           \A m \in Range(standards[i].metrics) :
             (standards[i].enabled /\ ~Skipped(m) /\ ~_check_metric(ret.args, metrics[m]).passed)
               => \E j \in ViolationsOf(ret.value, standards[i].name) :
                    m \in Range(ret.value.violations[j].violated_metrics)

\* a violation on the metric listed after a missing and a disabled one, the
\* disabled one matching the text with a larger threshold
C15_Witness ==
    /\ Moderated
    /\ "caution" \in DOMAIN metrics
    /\ ~metrics["caution"].enabled
    /\ PatternMatches(metrics["caution"].check_pattern, ret.args.text)
    /\ \E j \in 1..Len(ret.value.violations) :
         /\ ret.value.violations[j].violated_metrics = <<"substance">>
         /\ ret.value.violations[j].confidence = 80

-----------------------------------------------------------------------------
(* SpecBatch: moderate() and moderate_batch() on an engine one of whose    *)
(* metrics may hold an expression that does not compile                    *)

MaxBatch == 2        \* longest list given to moderate_batch

\* mutant of moderate_batch: the results come back in reverse order
moderate_batch_Reversed(self, comments) ==
    [i \in 1..Len(comments) |-> moderate(self, comments[Len(comments) + 1 - i])]

\* moderate_batch: [self.moderate(comment) for comment in comments]
moderate_batch(self, comments) ==
    [i \in 1..Len(comments) |-> moderate(self, comments[i])]

\* the clock readings of a batch: one per item, never going back
Readings(n) ==
    {ts \in [1..n -> now..MaxClock] : \A i \in 1..n : \A j \in 1..n : i <= j => ts[i] <= ts[j]}

ModerateBatch(comments) ==
    \E ts \in Readings(Len(comments)) :
      /\ ret' = Returned("moderate_batch", comments,
                         LET results == moderate_batch(Self, comments)
                         IN  [i \in 1..Len(comments) |-> ModerationResult(results[i], ts[i])])
      /\ now' = IF Len(comments) = 0 THEN now ELSE ts[Len(comments)]
      /\ UNCHANGED <<engineVars, validatorVars, historyVars, utilityVars>>

\* the metric "threats" as shipped, and with an expression that does not
\* compile; the broken one has the smallest threshold there is
BrokenThreats == Metric("threats", Bad, CRITICAL, 0, TRUE)

BatchComments == {Comment("127", <<"Kill">>), Comment("128", <<"nice">>), Comment("129", <<>>)}

InitBatch ==
    \E a \in BOOLEAN :
      /\ NoValidator
      /\ NoUtilities
      /\ __init__(Arg(<< Standard("safety", <<"threats">>, TRUE, 15, 60),
                          Standard("quality", <<"substance">>, TRUE, 10, 70) >>),
                  Arg(DictOf({BrokenThreats, DEFAULT_METRICS["substance"]})),
                  70, a)

NextBatch ==
    \/ \E m \in {BrokenThreats, DEFAULT_METRICS["threats"]} : add_metric(m)
    \/ \E c \in BatchComments : Moderate(c)
    \/ \E cs \in SeqsUpTo(BatchComments, MaxBatch) : ModerateBatch(cs)

SpecBatch == InitBatch /\ [][NextBatch]_vars

Batched == ret.op = "moderate_batch"

\* the results the last operation returned, as a list
Results == IF Batched THEN ret.value ELSE <<ret.value>>

\* the comments the last operation was given, as a list
Inputs == IF Batched THEN ret.args ELSE <<ret.args>>

\* the registered metrics whose expression does not compile
BrokenNames == {m \in DOMAIN metrics : CompileFails(metrics[m].check_pattern)}

\* C16: a metric whose check_pattern does not compile never fires: its check
\* passes with score 0 in the engine and in the validator, it is in no
\* violated_metrics list, and moderate() and moderate_batch() return a result
\* for every comment.
C16_FailOpen ==
    (Moderated \/ Batched) =>
      /\ Len(Results) = Len(Inputs)
      /\ \A i \in 1..Len(Results) :
           /\ Results[i].action \in ModerationAction
           /\ \A j \in 1..Len(Results[i].violations) :
                Range(Results[i].violations[j].violated_metrics) \cap BrokenNames = {}
           /\ \A m \in BrokenNames :
                /\ _check_metric(Inputs[i], metrics[m]).passed
                /\ _check_metric(Inputs[i], metrics[m]).score = Zero
                /\ _default_validate(Inputs[i], metrics[m]).passed
                /\ _default_validate(Inputs[i], metrics[m]).score = Zero

\* a batch moderated while an enabled standard references a broken metric,
\* another standard being violated
C16_Witness ==
    /\ Batched
    /\ Len(ret.value) = 2
    /\ "threats" \in BrokenNames
    /\ Referenced("threats")
    /\ \E i \in 1..2 : has_violations(ret.value[i])

\* C18: moderate_batch(comments) leaves the engine unchanged and returns a
\* list as long as its input whose i-th element is moderate(comments[i]) but
\* for the timestamp.
C18_BatchIsMap ==
    [][ ret'.op = "moderate_batch" =>
          /\ UNCHANGED engineVars
          /\ Len(ret'.value) = Len(ret'.args)
          /\ \A i \in 1..Len(ret'.args) :
               /\ ret'.value[i].comment = ret'.args[i]
               /\ Verdict(ret'.value[i]) = Verdict(moderate(Self, ret'.args[i])) ]_vars

\* a batch of two different comments with different verdicts
C18_Witness ==
    /\ Batched
    /\ Len(ret.value) = 2
    /\ ret.args[1] # ret.args[2]
    /\ Verdict(ret.value[1]) # Verdict(ret.value[2])
    /\ ret.value[1].timestamp # ret.value[2].timestamp

-----------------------------------------------------------------------------
(* Properties of SpecValidator: custom validators                          *)

\* the last operation validated metrics for which a raising validator and a
\* metric are registered
RaisingUsed ==
    /\ ret.op \in {"validate", "validate_all"}
    /\ \E m \in (IF Validated THEN {ret.args.metric} ELSE Range(ret.args.metrics)) :
         /\ m \in DOMAIN validator_metrics
         /\ m \in DOMAIN _custom_validators
         /\ _custom_validators[m] = "raising"

\* C17 (as claimed): validate and validate_all do not propagate an exception
\* raised by a registered custom validator; the metric is returned as passed
\* with score 0.0.
C17_EvaluatorExceptionCaught ==
    RaisingUsed =>
      /\ ~Raises(ret.value)
      /\ Validated => (ret.value.passed /\ ret.value.score = Zero)

\* C19: for a registered metric, validate returns what the custom validator
\* registered under its name returns, and what the default algorithm returns
\* when none is registered (never registered, or removed again).
C19_CustomReplacesDefault ==
    (Validated /\ ret.args.metric \in DOMAIN validator_metrics) =>
      LET m == ret.args.metric IN
      IF m \in DOMAIN _custom_validators
      THEN ret.value = Call(_custom_validators[m], ret.args.comment, validator_metrics[m])
      ELSE ret.value = _default_validate(ret.args.comment, validator_metrics[m])

\* a custom validator answered where the default algorithm finds nothing,
\* while another metric has no custom validator
C19_Witness ==
    /\ Validated
    /\ ret.args.metric \in DOMAIN validator_metrics
    /\ ret.args.metric \in DOMAIN _custom_validators
    /\ _custom_validators[ret.args.metric] = "always_fail"
    /\ ~ret.value.passed
    /\ _default_validate(ret.args.comment, validator_metrics[ret.args.metric]).passed
    /\ \E n \in DOMAIN validator_metrics : n \notin DOMAIN _custom_validators

-----------------------------------------------------------------------------
(* SpecEvaluator: the default validation of a MetricsValidator on metrics  *)
(* of every threshold band and texts with more matches than words          *)

\* thresholds from 0.0 to 1.0; .+ matches a text that has no word
EvaluatorMetricPool ==
    { Metric("threats", ThreatsPattern, CRITICAL, 0, TRUE),
      Metric("threats", ThreatsPattern, CRITICAL, 50, TRUE),
      Metric("threats", ThreatsPattern, CRITICAL, 100, TRUE),
      Metric("length", Dot, LOW, 60, TRUE) }

InitEvaluator ==
    /\ MetricsValidator__init__(Arg(DictOf({DEFAULT_METRICS["threats"]})))
    /\ NoUtilities
    /\ __init__(NoArg, NoArg, 70, TRUE)

NextEvaluator ==
    \/ \E m \in EvaluatorMetricPool : validator_add_metric(m)
    \/ \E n \in {"threats", "length"} : validator_remove_metric(n)
    \/ \E c \in Comments, n \in {"threats", "length"} : Validate(c, n)

SpecEvaluator == InitEvaluator /\ [][NextEvaluator]_vars

\* min(match_count / max(1, word_count), 1.0), and 0 without a match
Badness(metric, comment) ==
    LET match_count == Len(findall(metric.check_pattern, lower(comment.text)))
        word_count == Len(split(lower(comment.text)))
        words == IF word_count > 1 THEN word_count ELSE 1
    IN  IF match_count = 0 THEN Zero
        ELSE IF match_count < words THEN [num |-> match_count, den |-> words]
        ELSE [num |-> 1, den |-> 1]

\* the last operation validated, by the default algorithm, a registered
\* metric with a threshold in [0, 1]
DefaultValidated ==
    /\ Validated
    /\ ret.args.metric \in DOMAIN validator_metrics
    /\ ret.args.metric \notin DOMAIN _custom_validators
    /\ ~CompileFails(validator_metrics[ret.args.metric].check_pattern)
    /\ validator_metrics[ret.args.metric].threshold \in 0..100

\* C20 (as claimed): the default validation returns the score 0 without a
\* match and min(match_count / max(1, word_count), 1.0) otherwise, and
\* passed is exactly score < metric.threshold.
C20_DefaultEvaluator ==
    DefaultValidated =>
      LET metric == validator_metrics[ret.args.metric]
          expected == Badness(metric, ret.args.comment)
      IN  /\ FracEq(ret.value.score, expected)
          /\ ret.value.passed <=> FracLess(expected, metric.threshold)

-----------------------------------------------------------------------------
(* Further properties of Spec, SpecBatch and SpecEvaluator                 *)

\* C22 (as claimed): after any sequence of registry operations every
\* registered metric has a threshold in [0, 1] and every registered standard
\* a positive weight.
C22_RejectOnWrite ==
    /\ \A n \in DOMAIN metrics : metrics[n].threshold \in 0..100
    /\ \A i \in 1..Len(standards) : standards[i].weight >= 1

\* C23: a moderate() or moderate_batch() step changes no field of the
\* engine, and each result holds the comment it was given, unchanged.
C23_ModerateOnlyReads ==
    [][ ret'.op \in {"moderate", "moderate_batch"} =>
          /\ standards' = standards
          /\ metrics' = metrics
          /\ threshold' = threshold
          /\ auto_moderate' = auto_moderate
          /\ _cache' = _cache
          /\ IF ret'.op = "moderate"
             THEN ret'.value.comment = ret'.args
             ELSE [i \in 1..Len(ret'.value) |-> ret'.value[i].comment] = ret'.args ]_vars

\* moderate() has returned a result with violations on registries that the
\* caller changed before
C23_Witness ==
    /\ Moderated
    /\ has_violations(ret.value)
    /\ ret.value.comment = ret.args
    /\ "threats" \notin BrokenNames

\* C24 (as claimed): StandardsEngine._check_metric and the default validation
\* of MetricsValidator return the same pass decision and the same score for
\* every comment and every metric with a threshold in [0, 1].
C24_CheckAgreesWithValidator ==
    DefaultValidated =>
      LET check == _check_metric(ret.args.comment, validator_metrics[ret.args.metric])
      IN  /\ check.passed = ret.value.passed
          /\ FracEq(check.score, ret.value.score)

\* C26: a result is approved exactly when it has no violations, and then has
\* score 0.0 and confidence 1.0; it is removed exactly when it is severe.
C26_ResultConsistent ==
    Moderated =>
      /\ (ret.value.action = APPROVE) <=> ~has_violations(ret.value)
      /\ ret.value.action = APPROVE
           => (ret.value.score.num = 0 /\ ret.value.confidence = 1000)
      /\ (ret.value.action = REMOVE) <=> is_severe(ret.value)

\* removed for a HIGH violation, no violation being CRITICAL
C26_Witness ==
    /\ Moderated
    /\ ret.value.action = REMOVE
    /\ is_severe(ret.value)
    /\ CRITICAL \notin Severities(ret.value)

-----------------------------------------------------------------------------
(* SpecFloat: the engine on binary floating point. Python's float is a     *)
(* binary64 value rounded to nearest, ties to even, after every operation; *)
(* here a float is m * 2^e with a significand m of Precision bits, and the *)
(* engine's arithmetic is rounded the same way.                            *)

\* bits of the significand (53 in binary64)
Precision == 8

RECURSIVE Pow2(_)
Pow2(k) == IF k = 0 THEN 1 ELSE 2 * Pow2(k - 1)

FloatZero == [m |-> 0, e |-> 0]

\* the float nearest to (n / d) * 2^e, ties to the even significand
RECURSIVE RoundFloat(_, _, _)
RoundFloat(n, d, e) ==
    IF n = 0 THEN FloatZero
    ELSE IF n < d * Pow2(Precision - 1) THEN RoundFloat(2 * n, d, e - 1)
    ELSE IF n >= d * Pow2(Precision) THEN RoundFloat(n, 2 * d, e + 1)
    ELSE LET q == n \div d
             r == n % d
             m == IF 2 * r > d \/ (2 * r = d /\ q % 2 = 1) THEN q + 1 ELSE q
         IN  IF m = Pow2(Precision)
             THEN [m |-> Pow2(Precision - 1), e |-> e + 1]
             ELSE [m |-> m, e |-> e]

\* a decimal literal n/d of the source (0.7 is Float(7, 10)), an int as a float
Float(n, d) == RoundFloat(n, d, 0)

\* the numerators of x and y over the common denominator 2^(-min(x.e, y.e))
Aligned(x, y) ==
    LET e == IF x.e < y.e THEN x.e ELSE y.e
    IN  [x |-> x.m * Pow2(x.e - e), y |-> y.m * Pow2(y.e - e), e |-> e]

FloatLess(x, y) == Aligned(x, y).x < Aligned(x, y).y

FloatAdd(x, y) == RoundFloat(Aligned(x, y).x + Aligned(x, y).y, 1, Aligned(x, y).e)

FloatMul(x, y) == RoundFloat(x.m * y.m, 1, x.e + y.e)

FloatDiv(x, y) == RoundFloat(x.m, y.m, x.e - y.e)

FloatMax(S) == CHOOSE x \in S : \A y \in S : ~FloatLess(x, y)

FloatMin(x, y) == IF FloatLess(y, x) THEN y ELSE x

\* the float just below a positive float (math.nextafter(x, 0))
FloatPred(x) ==
    IF x.m = Pow2(Precision - 1)
    THEN [m |-> Pow2(Precision) - 1, e |-> x.e - 1]
    ELSE [m |-> x.m - 1, e |-> x.e]

\* f"{x:.2f}": the exact value of the float in hundredths, ties to even
FloatFormat2f(x) ==
    IF x.e >= 0 THEN 100 * x.m * Pow2(x.e)
    ELSE LET d == Pow2(0 - x.e)
             q == (100 * x.m) \div d
             r == (100 * x.m) % d
         IN  IF 2 * r > d \/ (2 * r = d /\ q % 2 = 1) THEN q + 1 ELSE q

\* _check_metric on floats: score = len(matches) / max(len(text.split()), 1)
_check_metric_float(comment, metric) ==
    LET text == lower(comment.text) IN
    IF CompileFails(metric.check_pattern)
    THEN [passed |-> TRUE, score |-> FloatZero, reasoning |-> <<"Error checking", metric.name>>]
    ELSE LET matches == findall(metric.check_pattern, text)
             words == Len(split(text))
             score == FloatDiv(Float(Len(matches), 1), Float(IF words > 1 THEN words ELSE 1, 1))
         IN  IF matches # <<>>
             THEN [passed |-> FloatLess(score, metric.threshold),
                   score |-> score,
                   reasoning |-> <<"Found", Len(matches), "matches for", metric.name, "pattern">>]
             ELSE [passed |-> TRUE, score |-> FloatZero,
                   reasoning |-> <<"No matches found for", metric.name>>]

\* _determine_severity on floats: the bands start at 0.9, 0.7 and 0.5
_determine_severity_float(confidence, standard) ==
    IF ~FloatLess(confidence, Float(9, 10)) THEN CRITICAL
    ELSE IF ~FloatLess(confidence, Float(7, 10)) THEN HIGH
    ELSE IF ~FloatLess(confidence, Float(5, 10)) THEN MEDIUM
    ELSE LOW

\* _check_standard on floats
_check_standard_float(self, comment, standard) ==
    LET violated_metrics ==
            SelectSeq(standard.metrics,
                      LAMBDA m : /\ m \in DOMAIN self.metrics
                                 /\ self.metrics[m].enabled
                                 /\ ~_check_metric_float(comment, self.metrics[m]).passed)
    IN  IF violated_metrics # <<>>
        THEN LET confidence == FloatMax({self.metrics[m].threshold : m \in Range(violated_metrics)})
             IN  << [standard |-> standard.name,
                     severity |-> _determine_severity_float(confidence, standard),
                     confidence |-> confidence,
                     violated_metrics |-> violated_metrics,
                     reasoning |-> <<"Comment violates", standard.name,
                                     "standard based on metrics:", violated_metrics>>] >>
        ELSE <<>>

\* _determine_action on floats
_determine_action_float(self, score, violations) ==
    IF violations = <<>> THEN APPROVE
    ELSE IF \E i \in 1..Len(violations) : violations[i].severity = CRITICAL THEN REMOVE
    ELSE IF \E i \in 1..Len(violations) : violations[i].severity = HIGH THEN REMOVE
    ELSE IF ~FloatLess(score, self.threshold) /\ self.auto_moderate THEN HIDE_
    ELSE FLAG

\* _calculate_confidence on floats
_calculate_confidence_float(score, violations) ==
    IF violations = <<>>
    THEN Float(1, 1)
    ELSE LET max_severity_confidence ==
                 FloatMax({violations[i].confidence : i \in 1..Len(violations)})
             violation_count_factor ==
                 FloatMin(FloatDiv(Float(Len(violations), 1), Float(5, 1)), Float(1, 1))
         IN  FloatDiv(FloatAdd(max_severity_confidence, violation_count_factor), Float(2, 1))

\* _generate_reasoning on floats
_generate_reasoning_float(self, violations, score) ==
    IF violations = <<>>
    THEN <<"Comment passes all standards. No violations detected.">>
    ELSE <<"Found", Len(violations), "violation(s):",
           [i \in 1..Len(violations) |-> <<violations[i].standard, violations[i].reasoning>>],
           "Overall score:", FloatFormat2f(score), "threshold:", self.threshold>>

\* the loop of moderate on floats: total_score += violation_score * weight,
\* total_weight += weight
RECURSIVE ModerateLoop_float(_, _, _, _)
ModerateLoop_float(self, comment, i, acc) ==
    IF i > Len(self.standards)
    THEN acc
    ELSE LET standard == self.standards[i] IN
         IF ~standard.enabled
         THEN ModerateLoop_float(self, comment, i + 1, acc)
         ELSE LET standard_violations == _check_standard_float(self, comment, standard)
                  violation_score ==
                      FloatMax({standard_violations[k].confidence : k \in 1..Len(standard_violations)})
              IN  ModerateLoop_float(self, comment, i + 1,
                    [violations |-> acc.violations \o standard_violations,
                     total_score |-> IF standard_violations # <<>>
                                     THEN FloatAdd(acc.total_score,
                                                   FloatMul(violation_score, standard.weight))
                                     ELSE acc.total_score,
                     total_weight |-> FloatAdd(acc.total_weight, standard.weight)])

\* moderate on floats: final_score = total_score / total_weight
moderate_float(self, comment) ==
    LET acc == ModerateLoop_float(self, comment, 1,
                   [violations |-> <<>>, total_score |-> FloatZero, total_weight |-> FloatZero])
        final_score == IF FloatLess(FloatZero, acc.total_weight)
                       THEN FloatDiv(acc.total_score, acc.total_weight)
                       ELSE FloatZero
    IN  [comment |-> comment,
         action |-> _determine_action_float(self, final_score, acc.violations),
         violations |-> acc.violations,
         score |-> final_score,
         confidence |-> _calculate_confidence_float(final_score, acc.violations),
         reasoning |-> _generate_reasoning_float(self, acc.violations, final_score)]

\* moderate(comment) of an engine whose numbers are floats
ModerateFloat(comment) ==
    /\ ret' = Returned("moderate", comment, ModerationResult(moderate_float(Self, comment), now))
    /\ UNCHANGED <<engineVars, validatorVars, now, historyVars, utilityVars>>

\* metric thresholds: 0.5, 0.7, 0.9 and the float just below 0.7
FloatThresholds == {Float(5, 10), FloatPred(Float(7, 10)), Float(7, 10), Float(9, 10)}

\* standard weights: every float from 1.0 up to 2.0
FloatWeights == {[m |-> m, e |-> 1 - Precision] : m \in Pow2(Precision - 1)..(Pow2(Precision) - 1)}

\* a clean text, a text that is one match, a text half of whose words match
FloatComments ==
    {Comment("c1", <<"nice">>), Comment("c1", <<"Kill">>), Comment("c1", <<"Kill", "nice">>)}

InitFloat ==
    \E t \in FloatThresholds, w \in FloatWeights, a \in BOOLEAN :
      /\ NoValidator
      /\ NoUtilities
      /\ __init__(Arg(<< Standard("safety", <<"threats">>, TRUE, w, Float(6, 10)) >>),
                  Arg(DictOf({Metric("threats", ThreatsPattern, CRITICAL, t, TRUE)})),
                  Float(7, 10), a)

NextFloat ==
    \/ \E c \in FloatComments : ModerateFloat(c)
    \/ add_standard(Standard("quality", <<"threats">>, TRUE, Float(1, 1), Float(7, 10)))
    \/ remove_standard("quality")

SpecFloat == InitFloat /\ [][NextFloat]_vars

\* C25 (as claimed): with positive weights the overall score never exceeds
\* the largest violation confidence, so an engine whose threshold is 0.7 or
\* more never returns HIDE.
C25_NoHideAtDefaultThreshold ==
    (Moderated /\ \A i \in 1..Len(standards) : FloatLess(FloatZero, standards[i].weight))
    => /\ has_violations(ret.value)
            => ~FloatLess(FloatMax({ret.value.violations[i].confidence :
                                      i \in 1..Len(ret.value.violations)}),
                          ret.value.score)
       /\ ~FloatLess(threshold, Float(7, 10)) => ret.value.action # HIDE_

-----------------------------------------------------------------------------
(* SpecPlatform: BasePlatform.moderate_comments, src/src/platforms/base.py, *)
(* on an engine and an executor (the platform's moderate_comment) that     *)
(* returns or raises, as it pleases                                        *)

MaxExecuted == 3     \* the executor's log is followed up to this many calls

\* what one call of the executor does
ExecutorOutcomes == {"True", "PlatformError"}

\* result.error = str(e): the result with one more attribute
WithError(result, e) ==
    [f \in DOMAIN result \cup {"error"} |-> IF f = "error" THEN e ELSE result[f]]

\* mutant of moderate_comments_body: the executor is called in a dry run too
moderate_comments_body_IgnoresDryRun(acc, comment, result, dry_run, outcome) ==
    IF result.action # APPROVE
    THEN [results |-> Append(acc.results,
                             IF outcome = "PlatformError" THEN WithError(result, outcome) ELSE result),
          calls |-> Append(acc.calls, [comment_id |-> comment.id, action |-> result.action,
                                       reason |-> result.reasoning])]
    ELSE [results |-> Append(acc.results, result), calls |-> acc.calls]

\* the body of the loop of moderate_comments, from results.append(result) on:
\* the results so far and the calls the executor has received; outcome is what
\* the executor does if it is called for this comment
moderate_comments_body(acc, comment, result, dry_run, outcome) ==
    IF ~dry_run /\ result.action # APPROVE
    THEN [results |-> Append(acc.results,
                             IF outcome = "PlatformError" THEN WithError(result, outcome) ELSE result),
          calls |-> Append(acc.calls, [comment_id |-> comment.id, action |-> result.action,
                                       reason |-> result.reasoning])]
    ELSE [results |-> Append(acc.results, result), calls |-> acc.calls]

\* the loop of moderate_comments over comments[i..]; ts[i] is the clock
\* engine.moderate reads for comments[i]
RECURSIVE moderate_comments_loop(_, _, _, _, _, _, _)
moderate_comments_loop(self, comments, dry_run, outcomes, ts, i, acc) ==
    IF i > Len(comments)
    THEN acc
    ELSE moderate_comments_loop(self, comments, dry_run, outcomes, ts, i + 1,
             moderate_comments_body(acc, comments[i],
                                    ModerationResult(moderate(self, comments[i]), ts[i]),
                                    dry_run, outcomes[i]))

\* moderate_comments returns: the executor's calls are in its log
ModerateCommentsReturn(comments, dry_run, done) ==
    /\ Len(executed) + Len(done.calls) <= MaxExecuted
    /\ ret' = Returned("moderate_comments",
                       [comments |-> comments, dry_run |-> dry_run], done.results)
    /\ executed' = executed \o done.calls
    /\ UNCHANGED <<engineVars, validatorVars, now, historyVars, heapVars, retry,
                   limiterVars, wrapper>>

\* moderate_comments(comments, engine, dry_run); the clock is read once per
\* comment and does not advance during the call
ModerateComments(comments, dry_run) ==
    \E outcomes \in [1..Len(comments) -> ExecutorOutcomes] :
      ModerateCommentsReturn(comments, dry_run,
          moderate_comments_loop(Self, comments, dry_run, outcomes,
                                 [i \in 1..Len(comments) |-> now], 1,
                                 [results |-> <<>>, calls |-> <<>>]))

\* a comment the engine flags and one it approves
PlatformComments == {Comment("127", <<"Kill">>), Comment("128", <<"nice">>)}

InitPlatform ==
    \E a \in BOOLEAN :
      /\ NoValidator
      /\ NoHeap /\ NoRetry /\ NoLimiter /\ NoWrapper
      /\ executed = <<>>
      /\ __init__(Arg(<< Standard("safety", <<"threats">>, TRUE, 15, 60) >>),
                  Arg(DictOf({DEFAULT_METRICS["threats"]})), 70, a)

NextPlatform ==
    \/ \E cs \in SeqsUpTo(PlatformComments, MaxBatch), d \in BOOLEAN : ModerateComments(cs, d)
    \/ disable_standard("safety")
    \/ enable_standard("safety")

SpecPlatform == InitPlatform /\ [][NextPlatform]_vars

ModeratedComments == ret.op = "moderate_comments"

\* the positions of the comments the executor has to be called for
ToExecute(results, dry_run) ==
    {i \in 1..Len(results) : ~dry_run /\ results[i].action # APPROVE}

\* the k-th smallest member of a set of numbers
RECURSIVE Kth(_, _)
Kth(S, k) == IF k = 1 THEN MinOf(S) ELSE Kth(S \ {MinOf(S)}, k - 1)

-----------------------------------------------------------------------------
(* SpecRetry: a function wrapped by ErrorHandler.retry_on_error,           *)
(* src/src/utils/error_handler.py; the function returns or raises as it    *)
(* pleases at every invocation                                             *)

MaxRetries == 2      \* the largest max_retries a wrapper is built with

\* exception classes and their base class
BaseOf ==
    [APIError |-> "ModerationError", RateLimitError |-> "ModerationError",
     ModerationError |-> "Exception", ValueError |-> "Exception", Exception |-> "Exception"]

\* isinstance(e, cls) for an exception of class type
RECURSIVE IsInstance(_, _)
IsInstance(type, cls) ==
    \/ type = cls
    \/ type # "Exception" /\ IsInstance(BaseOf[type], cls)

\* except tuple(error_types) catches the exception
Caught(error, error_types) == \E cls \in error_types : IsInstance(error.type, cls)

\* error_types=None stands for [APIError, RateLimitError]
DefaultErrorTypes == {"APIError", "RateLimitError"}

\* error_types arguments: the default, one class, a base class, no class
ErrorTypesArgs == {DefaultErrorTypes, {"RateLimitError"}, {"ModerationError"}, {}}

\* backoff_factor arguments, in tenths of a second: 0.5 and 1.0
BackoffArgs == {5, 10}

\* what one invocation of the wrapped function does: it returns a value or
\* raises an exception object of some class (n tells the objects apart)
FuncOutcomes(n) ==
    {[kind |-> "value", value |-> n]}
      \cup {[kind |-> "error", type |-> t, n |-> n] : t \in {"APIError", "RateLimitError", "ValueError"}}

\* the wrapper is called: attempt = 0, last_error = None, nothing invoked
StartRetry(error_types, max_retries, backoff_factor) ==
    [pc |-> "running", error_types |-> error_types, max_retries |-> max_retries,
     backoff_factor |-> backoff_factor, attempt |-> 0, last_error |-> None,
     outcomes |-> <<>>, slept |-> <<>>, result |-> None]

\* mutant of retry_iteration: the loop runs over range(max_retries + 2)
retry_iteration_OneMore(r, outcome) ==
    LET invoked == [r EXCEPT !.outcomes = Append(@, outcome)] IN
    IF outcome.kind = "value"
    THEN [invoked EXCEPT !.pc = "returned", !.result = outcome]
    ELSE IF ~Caught(outcome, r.error_types)
    THEN [invoked EXCEPT !.pc = "raised", !.result = outcome]
    ELSE IF r.attempt < r.max_retries + 1
    THEN [invoked EXCEPT !.last_error = outcome,
                         !.slept = Append(@, r.backoff_factor * Pow2(r.attempt)),
                         !.attempt = @ + 1]
    ELSE [invoked EXCEPT !.last_error = outcome, !.pc = "raised", !.result = outcome]

\* one iteration of the wrapper's loop: func is invoked and does outcome;
\* after a caught error of the last attempt the loop ends and last_error is
\* raised
retry_iteration(r, outcome) ==
    LET invoked == [r EXCEPT !.outcomes = Append(@, outcome)] IN
    IF outcome.kind = "value"
    THEN [invoked EXCEPT !.pc = "returned", !.result = outcome]
    ELSE IF ~Caught(outcome, r.error_types)
    THEN [invoked EXCEPT !.pc = "raised", !.result = outcome]
    ELSE IF r.attempt < r.max_retries
    THEN [invoked EXCEPT !.last_error = outcome,
                         !.slept = Append(@, r.backoff_factor * Pow2(r.attempt)),
                         !.attempt = @ + 1]
    ELSE [invoked EXCEPT !.last_error = outcome, !.pc = "raised", !.result = outcome]

\* a caller calls the wrapper (the previous call has ended)
RetryCall(error_types, max_retries, backoff_factor) ==
    /\ retry.pc # "running"
    /\ retry' = StartRetry(error_types, max_retries, backoff_factor)
    /\ UNCHANGED <<engineVars, validatorVars, ret, now, historyVars, heapVars, executed,
                   limiterVars, wrapper>>

\* the wrapper's next iteration
RetryAttempt ==
    /\ retry.pc = "running"
    /\ \E outcome \in FuncOutcomes(Len(retry.outcomes) + 1) :
         retry' = retry_iteration(retry, outcome)
    /\ UNCHANGED <<engineVars, validatorVars, ret, now, historyVars, heapVars, executed,
                   limiterVars, wrapper>>

InitRetry ==
    /\ NoValidator
    /\ NoHeap /\ NoPlatform /\ NoLimiter /\ NoWrapper
    /\ retry = [pc |-> "idle"]
    /\ __init__(NoArg, NoArg, 70, FALSE)

NextRetry ==
    \/ \E ts \in ErrorTypesArgs, m \in 0..MaxRetries, b \in BackoffArgs : RetryCall(ts, m, b)
    \/ RetryAttempt

SpecRetry == InitRetry /\ [][NextRetry]_vars

\* the invocations so far, but the last, all raised a caught error
EarlierAllCaught ==
    \A i \in 1..(Len(retry.outcomes) - 1) :
      retry.outcomes[i].kind = "error" /\ Caught(retry.outcomes[i], retry.error_types)

LastOutcome == retry.outcomes[Len(retry.outcomes)]

\* C28: the wrapped function is invoked at most max_retries + 1 times per
\* call; the wrapper returns the value of the first invocation that returns,
\* raises at once an exception that is no instance of a listed class, raises
\* the last error after max_retries + 1 invocations raised listed errors, and
\* has slept backoff_factor * 2^attempt after each failed attempt but the last.
C28_RetryBounded ==
    retry.pc # "idle" =>
      /\ Len(retry.outcomes) <= retry.max_retries + 1
      /\ retry.pc = "running" =>
           /\ \A i \in 1..Len(retry.outcomes) :
                retry.outcomes[i].kind = "error" /\ Caught(retry.outcomes[i], retry.error_types)
           /\ Len(retry.outcomes) <= retry.max_retries
           /\ Len(retry.slept) = Len(retry.outcomes)
      /\ retry.pc = "returned" =>
           /\ EarlierAllCaught
           /\ LastOutcome.kind = "value"
           /\ retry.result = LastOutcome
           /\ Len(retry.slept) = Len(retry.outcomes) - 1
      /\ retry.pc = "raised" =>
           /\ EarlierAllCaught
           /\ LastOutcome.kind = "error"
           /\ retry.result = LastOutcome
           /\ Caught(LastOutcome, retry.error_types)
                => Len(retry.outcomes) = retry.max_retries + 1
           /\ Len(retry.slept) = Len(retry.outcomes) - 1
      /\ \A k \in 1..Len(retry.slept) :
           retry.slept[k] = retry.backoff_factor * Pow2(k - 1)

\* a call with max_retries = 2 has ended raising the third listed error,
\* after sleeping twice
C28_Witness ==
    /\ retry.pc = "raised"
    /\ retry.max_retries = 2
    /\ Len(retry.outcomes) = 3
    /\ Caught(LastOutcome, retry.error_types)
    /\ retry.result.n = 3
    /\ Len(retry.slept) = 2

-----------------------------------------------------------------------------
(* SpecLimiter: one RateLimiter, src/src/utils/rate_limiter.py, used by    *)
(* several threads. Every public method runs under self._lock; a thread is *)
(* followed statement by statement. The clock counts seconds; a bucket     *)
(* holds its tokens in units of 1/3600 token, the smallest amount a second *)
(* adds to an hour bucket with an integer rate, so that refills are exact. *)

BurstSize == 2       \* burst_size of the limiter
MaxTime == 2         \* the limiter's clock stops after this many seconds
MaxGranted == 4      \* acquire is called until this many tokens were granted in no time

TokenUnits == 3600

Threads == {"t1", "t2"}

\* RateLimiter(requests_per_minute, requests_per_hour, burst_size)
RateLimiter(requests_per_minute, requests_per_hour, burst_size, utcnow) ==
    [requests_per_minute |-> requests_per_minute,
     requests_per_hour |-> requests_per_hour,
     burst_size |-> burst_size,
     _tokens_minute |-> burst_size * TokenUnits,
     _tokens_hour |-> burst_size * TokenUnits,
     _last_update |-> utcnow,
     _lock |-> None]

\* _refill at time utcnow
_refill(self, utcnow) ==
    LET elapsed == utcnow - self._last_update IN
    IF elapsed <= 0
    THEN self
    ELSE [self EXCEPT
            !._tokens_minute =
                MinOf({@ + (self.requests_per_minute * elapsed * TokenUnits) \div 60,
                       self.burst_size * TokenUnits}),
            !._tokens_hour =
                MinOf({@ + (self.requests_per_hour * elapsed * TokenUnits) \div 3600,
                       self.burst_size * TokenUnits}),
            !._last_update = utcnow]

\* mutant of LockFree: the lock excludes nobody
LockFree_Always(self) == TRUE

\* self._lock can be taken
LockFree(self) == self._lock = None

\* a thread outside the limiter's methods; returned holds what its last call
\* returned, as a tuple (empty for None)
Idle == [pc |-> "idle", returned |-> <<>>]

\* a thread calls acquire(tokens), get_available_tokens() or reset() and
\* enters the with self._lock block
Enter(t, method, tokens) ==
    /\ threads[t].pc = "idle"
    /\ method = "acquire" => granted.no_time + tokens <= MaxGranted
    /\ LockFree(limiter)
    /\ limiter' = [limiter EXCEPT !._lock = t]
    /\ threads' = [threads EXCEPT ![t] = [pc |-> method, tokens |-> tokens, returned |-> <<>>]]
    /\ UNCHANGED <<engineVars, validatorVars, ret, now, historyVars, heapVars, executed,
                   retry, clock, granted, wrapper>>

\* self._refill() in acquire and in get_available_tokens
Refill(t) ==
    /\ threads[t].pc \in {"acquire", "get_available_tokens"}
    /\ limiter' = _refill(limiter, clock)
    /\ threads' = [threads EXCEPT ![t].pc =
                     IF @ = "acquire" THEN "acquire_check" ELSE "get_available_tokens_return"]
    /\ granted' = IF clock - limiter._last_update > 0
                  THEN [no_time |-> 0, no_time_no_reset |-> 0]
                  ELSE granted
    /\ UNCHANGED <<engineVars, validatorVars, ret, now, historyVars, heapVars, executed,
                   retry, clock, wrapper>>

\* acquire: the test of both buckets; return False leaves the block
AcquireCheck(t) ==
    /\ threads[t].pc = "acquire_check"
    /\ IF /\ limiter._tokens_minute >= threads[t].tokens * TokenUnits
          /\ limiter._tokens_hour >= threads[t].tokens * TokenUnits
       THEN /\ threads' = [threads EXCEPT ![t].pc = "acquire_take"]
            /\ UNCHANGED limiter
       ELSE /\ threads' = [threads EXCEPT ![t] = [pc |-> "idle", returned |-> <<FALSE>>]]
            /\ limiter' = [limiter EXCEPT !._lock = None]
    /\ UNCHANGED <<engineVars, validatorVars, ret, now, historyVars, heapVars, executed,
                   retry, clock, granted, wrapper>>

\* acquire: both buckets are debited; return True leaves the block
AcquireTake(t) ==
    /\ threads[t].pc = "acquire_take"
    /\ limiter' = [limiter EXCEPT !._tokens_minute = @ - threads[t].tokens * TokenUnits,
                                  !._tokens_hour = @ - threads[t].tokens * TokenUnits,
                                  !._lock = None]
    /\ threads' = [threads EXCEPT ![t] = [pc |-> "idle", returned |-> <<TRUE>>]]
    /\ granted' = [no_time |-> granted.no_time + threads[t].tokens,
                   no_time_no_reset |-> granted.no_time_no_reset + threads[t].tokens]
    /\ UNCHANGED <<engineVars, validatorVars, ret, now, historyVars, heapVars, executed,
                   retry, clock, wrapper>>

\* get_available_tokens: return int(self._tokens_minute), int(self._tokens_hour)
GetAvailableTokensReturn(t) ==
    /\ threads[t].pc = "get_available_tokens_return"
    /\ threads' = [threads EXCEPT ![t] =
                     [pc |-> "idle",
                      returned |-> <<limiter._tokens_minute \div TokenUnits,
                                     limiter._tokens_hour \div TokenUnits>>]]
    /\ limiter' = [limiter EXCEPT !._lock = None]
    /\ UNCHANGED <<engineVars, validatorVars, ret, now, historyVars, heapVars, executed,
                   retry, clock, granted, wrapper>>

\* reset: both buckets full, _last_update = utcnow()
Reset(t) ==
    /\ threads[t].pc = "reset"
    /\ limiter' = [limiter EXCEPT !._tokens_minute = limiter.burst_size * TokenUnits,
                                  !._tokens_hour = limiter.burst_size * TokenUnits,
                                  !._last_update = clock,
                                  !._lock = None]
    /\ threads' = [threads EXCEPT ![t] = [pc |-> "idle", returned |-> <<>>]]
    /\ granted' = [granted EXCEPT !.no_time_no_reset = 0]
    /\ UNCHANGED <<engineVars, validatorVars, ret, now, historyVars, heapVars, executed,
                   retry, clock, wrapper>>

\* a second passes
LimiterTick ==
    /\ clock < MaxTime
    /\ clock' = clock + 1
    /\ UNCHANGED <<engineVars, validatorVars, ret, now, historyVars, heapVars, executed,
                   retry, limiter, threads, granted, wrapper>>

\* the default rates, 60 a minute and 1000 an hour
InitLimiter ==
    /\ NoValidator
    /\ NoHeap /\ NoPlatform /\ NoRetry /\ NoWrapper
    /\ clock = 0
    /\ limiter = RateLimiter(60, 1000, BurstSize, clock)
    /\ threads = [t \in Threads |-> Idle]
    /\ granted = [no_time |-> 0, no_time_no_reset |-> 0]
    /\ __init__(NoArg, NoArg, 70, FALSE)

NextLimiter ==
    \/ \E t \in Threads, k \in 1..(BurstSize + 1) : Enter(t, "acquire", k)
    \/ \E t \in Threads : Enter(t, "get_available_tokens", 0)
    \/ \E t \in Threads : Enter(t, "reset", 0)
    \/ \E t \in Threads : Refill(t)
    \/ \E t \in Threads : AcquireCheck(t)
    \/ \E t \in Threads : AcquireTake(t)
    \/ \E t \in Threads : GetAvailableTokensReturn(t)
    \/ \E t \in Threads : Reset(t)
    \/ LimiterTick

SpecLimiter == InitLimiter /\ [][NextLimiter]_vars

\* both buckets hold between 0 and burst_size tokens
BucketsInRange ==
    /\ limiter._tokens_minute \in 0..(limiter.burst_size * TokenUnits)
    /\ limiter._tokens_hour \in 0..(limiter.burst_size * TokenUnits)

\* a step in which acquire returns: True only when both buckets held the
\* tokens, which are then removed from each; False removes nothing
AcquireReturns ==
    \A t \in Threads :
      (threads[t].pc \in {"acquire_check", "acquire_take"} /\ threads'[t].pc = "idle") =>
        IF threads'[t].returned = <<TRUE>>
        THEN /\ limiter._tokens_minute >= threads[t].tokens * TokenUnits
             /\ limiter._tokens_hour >= threads[t].tokens * TokenUnits
             /\ limiter'._tokens_minute = limiter._tokens_minute - threads[t].tokens * TokenUnits
             /\ limiter'._tokens_hour = limiter._tokens_hour - threads[t].tokens * TokenUnits
        ELSE /\ limiter'._tokens_minute = limiter._tokens_minute
             /\ limiter'._tokens_hour = limiter._tokens_hour

\* C29 (as claimed): under any interleaving of acquire, get_available_tokens,
\* reset and the clock, both buckets stay between 0 and burst_size, acquire
\* returns True only when both buckets held the tokens and removes exactly
\* them, a failed acquire removes none, and the tokens granted while the
\* limiter saw no time elapse never exceed burst_size.
C29_TokenBounds ==
    /\ [](BucketsInRange /\ granted.no_time <= limiter.burst_size)
    /\ [][AcquireReturns]_vars

\* C29 (amended): the same, the tokens being counted since the limiter last
\* saw time elapse or was reset.
C29_TokenBoundsBetweenResets ==
    /\ [](BucketsInRange /\ granted.no_time_no_reset <= limiter.burst_size)
    /\ [][AcquireReturns]_vars

\* two threads have been granted the whole burst between them, a third
\* acquire has failed, and no time has passed
C29_Witness ==
    /\ granted.no_time_no_reset = limiter.burst_size
    /\ limiter._tokens_minute = 0
    /\ threads["t1"].returned = <<FALSE>>
    /\ threads["t2"].returned = <<TRUE>>
    /\ clock = 0

-----------------------------------------------------------------------------
(* SpecWrapper: a function decorated with rate_limit(platform, endpoint,   *)
(* tokens), called again and again by one caller                           *)

MaxCalls == 6        \* calls followed while the clock stands still
MaxSeconds == 61     \* the clock stops after this many seconds

\* wait_for_token: max_wait_time = 60.0
max_wait_time == 60

\* PlatformRateLimiter(): _initialize_platform_limiters, no endpoint limiters
PlatformRateLimiter(utcnow) ==
    [_limiters |->
        [twitter |-> RateLimiter(180, 900, 10, utcnow),
         reddit |-> RateLimiter(60, 600, 5, utcnow),
         youtube |-> RateLimiter(300, 10000, 10, utcnow),
         instagram |-> RateLimiter(200, 4800, 10, utcnow),
         medium |-> RateLimiter(50, 1000, 5, utcnow),
         tiktok |-> RateLimiter(50, 1000, 5, utcnow)],
     _endpoint_limiters |-> <<>>]

\* _get_limiter: the endpoint's limiter, else the platform's, else a new one
_get_limiter(self, platform, endpoint, utcnow) ==
    IF /\ endpoint # None
       /\ platform \in DOMAIN self._endpoint_limiters
       /\ endpoint \in DOMAIN self._endpoint_limiters[platform]
    THEN self._endpoint_limiters[platform][endpoint]
    ELSE IF platform \in DOMAIN self._limiters
    THEN self._limiters[platform]
    ELSE RateLimiter(60, 1000, 10, utcnow)

\* RateLimiter.acquire by a single thread: what it returns and the limiter after
acquire(self, tokens, utcnow) ==
    LET refilled == _refill(self, utcnow) IN
    IF /\ refilled._tokens_minute >= tokens * TokenUnits
       /\ refilled._tokens_hour >= tokens * TokenUnits
    THEN [returned |-> TRUE,
          self |-> [refilled EXCEPT !._tokens_minute = @ - tokens * TokenUnits,
                                    !._tokens_hour = @ - tokens * TokenUnits]]
    ELSE [returned |-> FALSE, self |-> refilled]

WrapperPlatforms == {"reddit", "mastodon"}

\* the burst_size the platform is configured with
PlatformBurst(platform) ==
    _get_limiter(PlatformRateLimiter(0), platform, None, 0).burst_size

\* the wrapper is called: limiter = PlatformRateLimiter(), then
\* limiter.wait_for_token(platform, endpoint, tokens) tries acquire; func runs
\* at once when acquire returns True
WrapperCall(platform, endpoint, tokens) ==
    /\ wrapper.pc = "idle"
    /\ wrapper.ran[platform] < MaxCalls
    /\ LET local == _get_limiter(PlatformRateLimiter(clock), platform, endpoint, clock)
           first == acquire(local, tokens, clock)
       IN  wrapper' =
             IF first.returned
             THEN [wrapper EXCEPT !.last = "ran",
                                  !.ran[platform] = IF tokens = 1 THEN @ + 1 ELSE @]
             ELSE [wrapper EXCEPT !.pc = "waiting", !.tokens = tokens, !.limiter = first.self,
                                  !.start_time = clock, !.last = None]
    /\ UNCHANGED <<engineVars, validatorVars, ret, now, historyVars, heapVars, executed,
                   retry, limiterVars>>

\* one turn of the loop of wait_for_token: RateLimitError after more than
\* max_wait_time, else time.sleep(0.1), during which a second may begin, and
\* acquire again
WrapperWait ==
    /\ wrapper.pc = "waiting"
    /\ IF clock - wrapper.start_time > max_wait_time
       THEN /\ wrapper' = [wrapper EXCEPT !.pc = "idle", !.last = "RateLimitError"]
            /\ UNCHANGED clock
       ELSE \E later \in {clock, clock + 1} :
              /\ later <= MaxSeconds
              /\ clock' = later
              /\ LET again == acquire(wrapper.limiter, wrapper.tokens, later)
                     counted == IF later > clock
                                THEN [p \in WrapperPlatforms |-> 0] ELSE wrapper.ran
                 IN  wrapper' =
                       IF again.returned
                       THEN [wrapper EXCEPT !.pc = "idle", !.last = "ran after waiting",
                                            !.ran = counted]
                       ELSE [wrapper EXCEPT !.limiter = again.self, !.ran = counted]
    /\ UNCHANGED <<engineVars, validatorVars, ret, now, historyVars, heapVars, executed,
                   retry, limiter, threads, granted>>

\* ran: per platform, the single-token calls that ran func without waiting
\* since the clock last moved
InitWrapper ==
    /\ NoValidator
    /\ NoHeap /\ NoPlatform /\ NoRetry /\ NoLimiter
    /\ wrapper = [pc |-> "idle", tokens |-> 0, limiter |-> None, start_time |-> 0,
                  last |-> None, ran |-> [p \in WrapperPlatforms |-> 0]]
    /\ __init__(NoArg, NoArg, 70, FALSE)

NextWrapper ==
    \/ \E p \in WrapperPlatforms, ep \in {None, "search"}, k \in {1, 6} : WrapperCall(p, ep, k)
    \/ WrapperWait

SpecWrapper == InitWrapper /\ [][NextWrapper]_vars

\* C30 (as claimed): successive calls of the decorated function draw from
\* one bucket per platform: while the clock stands still at most burst_size
\* single-token calls run the function without waiting.
C30_SharedBucket ==
    \A p \in WrapperPlatforms : wrapper.ran[p] <= PlatformBurst(p)

-----------------------------------------------------------------------------
(* SpecEngines: several StandardsEngine instances in one process. A        *)
(* Standard is an object: heap maps a reference to the object's fields,    *)
(* and an engine's standards dict holds references. The class attribute    *)
(* DEFAULT_STANDARDS holds the objects 1..5; DEFAULT_STANDARDS.copy() is a *)
(* new dict of the same objects. Metrics are entered by value: no          *)
(* operation of the engine assigns to a field of a Metric.                 *)

MaxObjects == 6      \* Standard objects in memory, the five defaults included

EngineIds == {1, 2}

\* the objects of the class attribute DEFAULT_STANDARDS, as the module is loaded
DefaultHeap == DEFAULT_STANDARDS

\* StandardsEngine(): self.standards = self.DEFAULT_STANDARDS.copy()
DefaultEngine ==
    [standards |-> [i \in 1..Len(DEFAULT_STANDARDS) |-> i],
     metrics |-> DEFAULT_METRICS,
     threshold |-> 70,
     auto_moderate |-> FALSE]

\* the engine e as its methods read it: each reference replaced by its object
EngineView(h, es, e) ==
    [standards |-> [i \in 1..Len(es[e].standards) |-> h[es[e].standards[i]]],
     metrics |-> es[e].metrics,
     threshold |-> es[e].threshold,
     auto_moderate |-> es[e].auto_moderate]

\* the place of the key name in the standards dict of engine e, 0 when missing
StandardIndex(e, name) == IndexOf(EngineView(heap, engines, e).standards, name)

\* a second engine is constructed with no arguments
EngineInit(e) ==
    /\ e \notin DOMAIN engines
    /\ engines' = FunSet(engines, e, DefaultEngine)
    /\ ret' = Returned("__init__", [engine |-> e], None)
    /\ UNCHANGED <<engineVars, validatorVars, now, historyVars, heap, executed, retry,
                   limiterVars, wrapper>>

\* engine e: self.standards[standard.name] = standard, a new object of the caller
EngineAddStandard(e, standard) ==
    /\ e \in DOMAIN engines
    /\ Len(heap) < MaxObjects
    /\ heap' = Append(heap, standard)
    /\ engines' = [engines EXCEPT ![e].standards =
                     IF StandardIndex(e, standard.name) > 0
                     THEN [@ EXCEPT ![StandardIndex(e, standard.name)] = Len(heap) + 1]
                     ELSE Append(@, Len(heap) + 1)]
    /\ ret' = Returned("add_standard", [engine |-> e, name |-> standard.name], None)
    /\ UNCHANGED <<engineVars, validatorVars, now, historyVars, executed, retry,
                   limiterVars, wrapper>>

\* engine e: del self.standards[name]
EngineRemoveStandard(e, name) ==
    /\ e \in DOMAIN engines
    /\ engines' = [engines EXCEPT ![e].standards =
                     SelectSeq(@, LAMBDA r : heap[r].name # name)]
    /\ ret' = Returned("remove_standard", [engine |-> e, name |-> name],
                       StandardIndex(e, name) > 0)
    /\ UNCHANGED <<engineVars, validatorVars, now, historyVars, heap, executed, retry,
                   limiterVars, wrapper>>

\* engine e: self.standards[name].enabled = flag, an assignment to the object
EngineSetEnabled(e, name, flag) ==
    /\ e \in DOMAIN engines
    /\ heap' = IF StandardIndex(e, name) > 0
               THEN [heap EXCEPT ![engines[e].standards[StandardIndex(e, name)]].enabled = flag]
               ELSE heap
    /\ ret' = Returned(IF flag THEN "enable_standard" ELSE "disable_standard",
                       [engine |-> e, name |-> name], StandardIndex(e, name) > 0)
    /\ UNCHANGED <<engineVars, validatorVars, now, historyVars, engines, executed, retry,
                   limiterVars, wrapper>>

\* engine e: self.metrics[metric.name] = metric
EngineAddMetric(e, metric) ==
    /\ e \in DOMAIN engines
    /\ engines' = [engines EXCEPT ![e].metrics = FunSet(@, metric.name, metric)]
    /\ ret' = Returned("add_metric", [engine |-> e, name |-> metric.name], None)
    /\ UNCHANGED <<engineVars, validatorVars, now, historyVars, heap, executed, retry,
                   limiterVars, wrapper>>

\* engine e: del self.metrics[name]
EngineRemoveMetric(e, name) ==
    /\ e \in DOMAIN engines
    /\ engines' = [engines EXCEPT ![e].metrics = FunDel(@, name)]
    /\ ret' = Returned("remove_metric", [engine |-> e, name |-> name],
                       name \in DOMAIN engines[e].metrics)
    /\ UNCHANGED <<engineVars, validatorVars, now, historyVars, heap, executed, retry,
                   limiterVars, wrapper>>

\* engine e: moderate(comment)
EngineModerate(e, comment) ==
    /\ e \in DOMAIN engines
    /\ ret' = Returned("moderate", [engine |-> e, comment |-> comment],
                       ModerationResult(moderate(EngineView(heap, engines, e), comment), now))
    /\ UNCHANGED <<engineVars, validatorVars, now, historyVars, heapVars, executed, retry,
                   limiterVars, wrapper>>

\* the first engine exists, default-constructed; the second is constructed
\* at any later moment
InitEngines ==
    /\ NoValidator
    /\ NoPlatform /\ NoRetry /\ NoLimiter /\ NoWrapper
    /\ heap = DefaultHeap
    /\ engines = [e \in {1} |-> DefaultEngine]
    /\ __init__(NoArg, NoArg, 70, FALSE)

NextEngines ==
    \/ \E e \in EngineIds : EngineInit(e)
    \/ \E e \in EngineIds :
         EngineAddStandard(e, Standard("safety", <<"threats">>, TRUE, 15, 60))
    \/ \E e \in EngineIds, n \in {"safety"} : EngineRemoveStandard(e, n)
    \/ \E e \in EngineIds, n \in DefaultStandardNames, flag \in BOOLEAN :
         EngineSetEnabled(e, n, flag)
    \/ \E e \in EngineIds : EngineAddMetric(e, Metric("threats", ThreatsPattern, CRITICAL, 100, TRUE))
    \/ \E e \in EngineIds : EngineRemoveMetric(e, "threats")
    \/ \E e \in EngineIds, c \in PlatformComments : EngineModerate(e, c)

SpecEngines == InitEngines /\ [][NextEngines]_vars

\* C21 (as claimed): an operation on one engine leaves every other engine as
\* it was (its standards and their enabled flags, its metrics, and so its
\* moderation results), and an engine constructed without arguments holds
\* the default standards, all enabled, whatever was done to other engines.
C21_EnginesIndependent ==
    [][ /\ \A f \in DOMAIN engines :
             ret'.args.engine # f
               => EngineView(heap', engines', f) = EngineView(heap, engines, f)
        /\ \A f \in DOMAIN engines' \ DOMAIN engines :
             /\ EngineView(heap', engines', f).standards = DEFAULT_STANDARDS
             /\ EngineView(heap', engines', f).metrics = DEFAULT_METRICS ]_vars

====
